---- MODULE Spec2Model ----
(***************************************************************************)
(* A model of djson: the tokenizer, the recursive-descent parser and the   *)
(* tree builder behind MergeValue / MergeString (src/parser.go,            *)
(* src/builder.go, the lexer of src/unnamed/part_003 lines 408-684) and    *)
(* behind the multi-clause entry point Unmarshal (src/unnamed/part_002     *)
(* with the lexer of src/unnamed/part_004).                                *)
(*                                                                         *)
(* Representation.                                                         *)
(*  - A Go string is a sequence of runes; a rune is a one-character TLA+   *)
(*    string, except the runes outside printable ASCII, which are named    *)
(*    by their code point ("U+0000", "U+00B2", ...).                       *)
(*  - A Go value (interface{}) is a record tagged by its dynamic type:     *)
(*      [k |-> "null"], [k |-> "bool", b |-> TRUE], [k |-> "int", i |-> 7],*)
(*      [k |-> "float", f |-> "10.01"], [k |-> "str", s |-> "abc"],        *)
(*      [k |-> "arr", a |-> <<...>>], [k |-> "map", m |-> [key |-> ...]]   *)
(*    A float64 is kept as the literal it was parsed from.                 *)
(*  - map[string]interface{} is a function from TLA+ strings to values.    *)
(***************************************************************************)
EXTENDS Integers, Sequences, FiniteSets, TLC

VARIABLES dest,     \* the caller's destination map
          pre,      \* the destination map as it was before the last call
          api,      \* the entry point of the last call
          input,    \* the expression of the last call (a sequence of runes)
          clauses,  \* the clauses the expression was rendered from (<<>> for raw text)
          status,   \* "init", "ok", "error" or "panic"
          err,      \* the error message of the last call ("" on success)
          prev,     \* entry point, clauses and status of the call before the last
          calls,    \* number of calls made so far
          lexer,    \* the goroutine of a tokenizer and its token channel
          caller    \* the goroutine that receives from the token channel

vars == <<dest, pre, api, input, clauses, status, err, prev, calls, lexer, caller>>

-----------------------------------------------------------------------------
(* Strings and runes *)

RECURSIVE Str(_)
\* string(l.buffer): the Go string made of a sequence of runes
Str(s) == IF s = <<>> THEN "" ELSE s[1] \o Str(Tail(s))

\* var end = strRune(0)
end == "U+0000"

\* utf8 encoded width of a rune
RuneLen(r) ==
    IF r \in {"U+00A0", "U+00B2", "U+00E9", "U+0663"} THEN 2
    ELSE IF r = "U+20AC" THEN 3
    ELSE 1

RECURSIVE ByteLen(_)
\* len(s) of a Go string: its length in bytes
ByteLen(s) == IF s = <<>> THEN 0 ELSE RuneLen(s[1]) + ByteLen(Tail(s))

RECURSIVE RuneAt(_, _, _)
\* the rune found at byte offset pos of s, scanning from rune number i
RuneAt(s, i, pos) ==
    IF pos <= 0 THEN s[i] ELSE RuneAt(s, i + 1, pos - RuneLen(s[i]))

\* utf8.DecodeRuneInString(l.input[l.position:])
DecodeRuneInString(s, pos) ==
    LET r == RuneAt(s, 1, pos) IN [r |-> r, width |-> RuneLen(r)]

DecDigits == <<"0", "1", "2", "3", "4", "5", "6", "7", "8", "9">>

AsciiDigit == {"0", "1", "2", "3", "4", "5", "6", "7", "8", "9"}

\* the numeric value of an ASCII digit
DigitVal(c) == CHOOSE d \in 0..9 : DecDigits[d + 1] = c

RECURSIVE Itoa(_)
\* %d of a non-negative int
Itoa(n) == IF n < 10 THEN DecDigits[n + 1]
           ELSE Itoa(n \div 10) \o DecDigits[(n % 10) + 1]

RECURSIVE ItoaRunes(_)
\* the decimal digits of a non-negative int, as runes
ItoaRunes(n) == IF n < 10 THEN <<DecDigits[n + 1]>>
                ELSE Append(ItoaRunes(n \div 10), DecDigits[(n % 10) + 1])

\* the printable ASCII runes in the order of their code points, U+0020
\* first; the grave accent, which no TLA+ string holds, goes by its code point
AsciiPrintable ==
    <<
       " ", "!", "\"", "#", "$", "%", "&", "'", "(", ")", "*", "+", ",", "-", ".", "/",
       "0", "1", "2", "3", "4", "5", "6", "7", "8", "9", ":", ";", "<", "=", ">", "?",
       "@", "A", "B", "C", "D", "E", "F", "G", "H", "I", "J", "K", "L", "M", "N", "O",
       "P", "Q", "R", "S", "T", "U", "V", "W", "X", "Y", "Z", "[", "\\", "]", "^", "_",
       "U+0060", "a", "b", "c", "d", "e", "f", "g", "h", "i", "j", "k", "l", "m", "n", "o",
       "p", "q", "r", "s", "t", "u", "v", "w", "x", "y", "z", "{", "|", "}", "~" >>

HexDigits == <<"0", "1", "2", "3", "4", "5", "6", "7", "8", "9", "A", "B", "C", "D", "E", "F">>

\* the runes outside ASCII that are printable; a rune named by its code point
\* and not among them is a control character or a space that is not U+0020
PrintableNamed == {"U+00B2", "U+00E9", "U+0663", "U+20AC"}

\* strconv.IsPrint, which %#U asks whether to show the rune itself
IsPrint(r) == r \in PrintableNamed \/ \E i \in 1..Len(AsciiPrintable) : AsciiPrintable[i] = r

\* the code point of a rune as %#U prints it: U+ and four hexadecimal
\* digits; a rune outside printable ASCII is named by just that text
CodePoint(r) ==
    IF \E i \in 1..Len(AsciiPrintable) : AsciiPrintable[i] = r
    THEN LET n == 31 + CHOOSE i \in 1..Len(AsciiPrintable) : AsciiPrintable[i] = r
         IN  "U+00" \o HexDigits[(n \div 16) + 1] \o HexDigits[(n % 16) + 1]
    ELSE r

\* strRune.String: "end", or %#U of the rune, which shows the rune in quotes
\* after its code point when the rune is printable
RuneString(r) ==
    IF r = end THEN "end"
    ELSE IF IsPrint(r) THEN "character: " \o CodePoint(r) \o " '" \o r \o "'"
    ELSE "character: " \o CodePoint(r)

\* unicode.IsNumber
IsNumber(r) == r \in AsciiDigit \cup {"U+00B2", "U+0663"}


-----------------------------------------------------------------------------
(* The tokenizer of MergeValue / MergeString: src/unnamed/part_003,        *)
(* lines 408-684.  A lexer is the record of the fields of struct lex; the  *)
(* field tokens is the sequence of tokens sent on the channel so far.      *)

\* var stopLeftValueChars
stopLeftValueChars == {"=", ".", "["}

\* isStopChar
isStopChar(r, stopCharSet) == r \in stopCharSet

\* isArrayIndexChar
isArrayIndexChar(r) == IsNumber(r)

\* newToken: value is the Go string of the token; runes is the same text
\* rune by rune, kept for the code that looks inside the string
newToken(tokenType, position, runes) ==
    [TokenType |-> tokenType, position |-> position,
     value |-> Str(runes), runes |-> runes]

\* the token of lex.error: its value is the message
errorToken(position, msg) ==
    [TokenType |-> "tokenError", position |-> position,
     value |-> msg, runes |-> <<>>]

\* the struct lex that newLex builds
newLex(str) ==
    [input |-> str, position |-> 0, start |-> 0, width |-> 0,
     buffer |-> <<>>, tokens |-> <<>>]

\* a local variable: v := ...; the rest of the function body is F
With(v, F(_)) == F(v)

\* lex.read: the lexer after the read and the rune read
read(l) ==
    IF l.position >= ByteLen(l.input)
    THEN [l |-> [l EXCEPT !.width = 0], r |-> end]
    ELSE With(DecodeRuneInString(l.input, l.position), LAMBDA d :
            [l |-> [l EXCEPT !.width = d.width,
                             !.position = @ + d.width,
                             !.buffer = Append(@, d.r)],
             r |-> d.r])

\* lex.unread
unread(l) ==
    [l EXCEPT !.position = @ - l.width,
              !.buffer = IF l.width # 0 THEN SubSeq(@, 1, Len(@) - 1) ELSE @]

\* lex.skipLast
skipLast(l) == [l EXCEPT !.buffer = SubSeq(@, 1, Len(@) - 1)]

\* lex.peek
peek(l) == With(read(l), LAMBDA rd : [l |-> unread(rd.l), r |-> rd.r])

\* an emit that gives the token the offset where its text ends
emitAtPosition(l, tokenType) ==
    [l EXCEPT !.tokens = Append(@, newToken(tokenType, l.position, l.buffer)),
              !.start = l.position,
              !.buffer = <<>>]

\* lex.emit
emit(l, tokenType) ==
    [l EXCEPT !.tokens = Append(@, newToken(tokenType, l.start, l.buffer)),
              !.start = l.position,
              !.buffer = <<>>]

\* lex.error: the error token carries the current position in its text
error(l, msg) ==
    [l EXCEPT !.tokens = Append(@, errorToken(l.start,
                  "in position " \o Itoa(l.position) \o " got " \o msg))]

RECURSIVE scan(_, _)
\* lex.scan: reads up to an unescaped stop character; err is "" on success
scan(l, stopCharSet) ==
    With(read(l), LAMBDA rd :
        IF rd.r = end THEN [l |-> unread(rd.l), err |-> "", ch |-> end]
        ELSE IF rd.r = "\\" THEN
            With(peek(rd.l), LAMBDA pk :
                IF isStopChar(pk.r, stopCharSet) \/ pk.r = "\\"
                THEN scan(read(skipLast(pk.l)).l, stopCharSet)
                ELSE [l |-> read(pk.l).l,
                      err |-> "unknown escape sequence: " \o RuneString(pk.r), ch |-> pk.r])
        ELSE IF ~isStopChar(rd.r, stopCharSet) THEN scan(rd.l, stopCharSet)
        ELSE [l |-> unread(rd.l), err |-> "", ch |-> end])

\* fmt.Sprintf(format) inside l.error(err.Error()): the format is the message
\* of scan about the rune ch and no argument follows it.  The message has a
\* % only where it shows the rune % in quotes; Sprintf reads it as a verb,
\* the quote after it, and puts %!'(MISSING) for the verb without argument
SprintfErrError(msg, ch) ==
    IF ch = "%"
    THEN "unknown escape sequence: character: " \o CodePoint(ch) \o " '%!'(MISSING)"
    ELSE msg

RECURSIVE scanArrayIndex(_)
\* lex.scanArrayIndex
scanArrayIndex(l) ==
    With(read(l), LAMBDA rd :
        IF isArrayIndexChar(rd.r) THEN scanArrayIndex(rd.l) ELSE unread(rd.l))

\* a lexMapKey that takes a reserved character for the end of an empty key
lexMapKeyAllowsEmpty(l) ==
    With(read(l), LAMBDA rd :
        IF rd.r = end
        THEN [l |-> error(rd.l, "unexpected " \o RuneString(rd.r) \o ", expecting a map key"),
              next |-> "nil"]
        ELSE With(scan(unread(rd.l), stopLeftValueChars), LAMBDA sc :
                IF sc.err # ""
                THEN [l |-> error(sc.l, SprintfErrError(sc.err, sc.ch)), next |-> "nil"]
                ELSE [l |-> emit(sc.l, "tokenMapKey"), next |-> "lexLeftValue"]))

\* lexMapKey: a state function gives the lexer after it ran and the next state
lexMapKey(l) ==
    With(read(l), LAMBDA rd :
        IF rd.r = end
        THEN [l |-> error(rd.l, "unexpected " \o RuneString(rd.r) \o ", expecting a map key"),
              next |-> "nil"]
        ELSE IF ~isStopChar(rd.r, stopLeftValueChars)
        THEN With(scan(unread(rd.l), stopLeftValueChars), LAMBDA sc :
                IF sc.err # ""
                THEN [l |-> error(sc.l, SprintfErrError(sc.err, sc.ch)), next |-> "nil"]
                ELSE [l |-> emit(sc.l, "tokenMapKey"), next |-> "lexLeftValue"])
        ELSE [l |-> error(rd.l, "unexpected " \o RuneString(rd.r) \o ", expecting a map key"),
              next |-> "nil"])

\* a lexLeftValue that reports the end of the input with tokenEnd
lexLeftValueEmitsEnd(l) ==
    With(read(l), LAMBDA rd :
        IF rd.r = "." THEN [l |-> emit(rd.l, "tokenMapKeySeparator"), next |-> "lexMapKey"]
        ELSE IF rd.r = "[" THEN [l |-> emit(rd.l, "tokenArrayIndexStart"), next |-> "lexArrayIndex"]
        ELSE IF rd.r = "=" THEN [l |-> emit(rd.l, "tokenAssignment"), next |-> "lexValue"]
        ELSE IF rd.r = end THEN [l |-> emit(rd.l, "tokenEnd"), next |-> "nil"]
        ELSE [l |-> error(rd.l, "unexpected " \o RuneString(rd.r) \o ", expecting '.', '=' or '['"),
              next |-> "nil"])

\* a lexLeftValue that takes the end of the input for an assignment of nothing
lexLeftValueEndAssigns(l) ==
    With(read(l), LAMBDA rd :
        IF rd.r = "." THEN [l |-> emit(rd.l, "tokenMapKeySeparator"), next |-> "lexMapKey"]
        ELSE IF rd.r = "[" THEN [l |-> emit(rd.l, "tokenArrayIndexStart"), next |-> "lexArrayIndex"]
        ELSE IF rd.r = "=" \/ rd.r = end
        THEN [l |-> emit(rd.l, "tokenAssignment"), next |-> "lexValue"]
        ELSE [l |-> error(rd.l, "unexpected " \o RuneString(rd.r) \o ", expecting '.', '=' or '['"),
              next |-> "nil"])

\* lexLeftValue
lexLeftValue(l) ==
    With(read(l), LAMBDA rd :
        IF rd.r = "." THEN [l |-> emit(rd.l, "tokenMapKeySeparator"), next |-> "lexMapKey"]
        ELSE IF rd.r = "[" THEN [l |-> emit(rd.l, "tokenArrayIndexStart"), next |-> "lexArrayIndex"]
        ELSE IF rd.r = "=" THEN [l |-> emit(rd.l, "tokenAssignment"), next |-> "lexValue"]
        ELSE [l |-> error(rd.l, "unexpected " \o RuneString(rd.r) \o ", expecting '.', '=' or '['"),
              next |-> "nil"])

\* a lexArrayIndex that goes on after its error where ] was missing
lexArrayIndexGoesOn(l) ==
    With(read(l), LAMBDA rd :
        IF ~isArrayIndexChar(rd.r)
        THEN [l |-> error(rd.l, "unexpected " \o RuneString(rd.r) \o ", expecting an array index"),
              next |-> "nil"]
        ELSE With(read(emit(scanArrayIndex(rd.l), "tokenArrayIndex")), LAMBDA rd2 :
                IF rd2.r = "]"
                THEN [l |-> emit(rd2.l, "tokenArrayIndexFinish"), next |-> "lexLeftValue"]
                ELSE [l |-> error(rd2.l, "unexpected " \o RuneString(rd2.r) \o ", expecting ']'"),
                      next |-> "lexLeftValue"]))

\* lexArrayIndex
lexArrayIndex(l) ==
    With(read(l), LAMBDA rd :
        IF ~isArrayIndexChar(rd.r)
        THEN [l |-> error(rd.l, "unexpected " \o RuneString(rd.r) \o ", expecting an array index"),
              next |-> "nil"]
        ELSE With(read(emit(scanArrayIndex(rd.l), "tokenArrayIndex")), LAMBDA rd2 :
                IF rd2.r = "]"
                THEN [l |-> emit(rd2.l, "tokenArrayIndexFinish"), next |-> "lexLeftValue"]
                ELSE [l |-> error(rd2.l, "unexpected " \o RuneString(rd2.r) \o ", expecting ']'"),
                      next |-> "nil"]))

RECURSIVE lexValueLoop(_, _)
\* the loop of lexValue: reads until read returns end, counting the runes
lexValueLoop(rd, valueLength) ==
    IF rd.r # end THEN lexValueLoop(read(rd.l), valueLength + 1)
    ELSE [l |-> rd.l, valueLength |-> valueLength]

\* lexValue: the whole rest of the input is one value
lexValue(l) ==
    With(lexValueLoop(read(l), 0), LAMBDA lp :
        IF lp.valueLength > 0
        THEN [l |-> emit(read(emit(unread(lp.l), "tokenValue")).l, "tokenEnd"), next |-> "nil"]
        ELSE [l |-> emit(lp.l, "tokenEnd"), next |-> "nil"])

RECURSIVE runFrom(_, _)
\* lex.run: applies the state functions until one returns nil
runFrom(l, state) ==
    IF state = "nil" THEN l
    ELSE With(CASE state = "lexMapKey"     -> lexMapKey(l)
                [] state = "lexLeftValue"  -> lexLeftValue(l)
                [] state = "lexArrayIndex" -> lexArrayIndex(l)
                [] state = "lexValue"      -> lexValue(l),
              LAMBDA st : runFrom(st.l, st.next))

\* the tokens the channel of newLex(str) delivers before it is closed
run(str) == runFrom(newLex(str), "lexMapKey").tokens

-----------------------------------------------------------------------------
(* Value coercion: tryParse of src/parser.go and the strconv functions it  *)
(* calls.  A text is a sequence of runes.                                   *)

Null == [k |-> "null"]
Bool(b) == [k |-> "bool", b |-> b]
Int64(i) == [k |-> "int", i |-> i]
Float64(text) == [k |-> "float", f |-> Str(text)]
String(text) == [k |-> "str", s |-> Str(text)]
Array(a) == [k |-> "arr", a |-> a]
Map(m) == [k |-> "map", m |-> m]

\* the texts strconv.ParseBool accepts as true and as false
ParseBoolTrue == {"1", "t", "T", "TRUE", "true", "True"}
ParseBoolFalse == {"0", "f", "F", "FALSE", "false", "False"}

\* strconv.ParseBool
ParseBool(val) ==
    IF Str(val) \in ParseBoolTrue THEN [ok |-> TRUE, b |-> TRUE]
    ELSE IF Str(val) \in ParseBoolFalse THEN [ok |-> TRUE, b |-> FALSE]
    ELSE [ok |-> FALSE, b |-> FALSE]

RECURSIVE StripZeros(_)
\* a digit text without its leading zeros
StripZeros(d) == IF d # <<>> /\ d[1] = "0" THEN StripZeros(Tail(d)) ELSE d

RECURSIVE DigitsLE(_, _)
\* a <= b for two digit texts of the same length
DigitsLE(a, b) ==
    IF a = <<>> THEN TRUE
    ELSE IF DigitVal(a[1]) < DigitVal(b[1]) THEN TRUE
    ELSE IF DigitVal(a[1]) > DigitVal(b[1]) THEN FALSE
    ELSE DigitsLE(Tail(a), Tail(b))

\* d <= max for two digit texts without leading zeros
MagnitudeLE(d, max) ==
    \/ Len(d) < Len(max)
    \/ Len(d) = Len(max) /\ DigitsLE(d, max)

RECURSIVE NatOf(_)
\* the number a digit text denotes
NatOf(d) == IF d = <<>> THEN 0
            ELSE 10 * NatOf(SubSeq(d, 1, Len(d) - 1)) + DigitVal(d[Len(d)])

\* 1<<63 - 1 and 1<<63, the bounds of int64 (and of int on 64-bit platforms)
MaxInt64Digits == <<"9","2","2","3","3","7","2","0","3","6","8","5","4","7","7","5","8","0","7">>
MinInt64Digits == <<"9","2","2","3","3","7","2","0","3","6","8","5","4","7","7","5","8","0","8">>

\* 1<<64 - 1, the largest uint64
MaxUint64Digits == <<"1","8","4","4","6","7","4","4","0","7","3","7","0","9","5","5","1","6","1","5">>

\* strconv.ParseUint, base 10, on the runes d from the left: at each rune a
\* rune that is no digit 0-9 is the error of syntax; a digit with which the
\* number passes the largest uint64 is the error of range (n >= cutoff, or
\* n*10 + digit wraps around)
FirstUintError(d) ==
    IF \E j \in 1..Len(d) :
          d[j] \notin AsciiDigit \/ ~MagnitudeLE(StripZeros(SubSeq(d, 1, j)), MaxUint64Digits)
    THEN With(CHOOSE j \in 1..Len(d) :
                /\ d[j] \notin AsciiDigit \/ ~MagnitudeLE(StripZeros(SubSeq(d, 1, j)), MaxUint64Digits)
                /\ \A h \in 1..(j - 1) :
                      d[h] \in AsciiDigit /\ MagnitudeLE(StripZeros(SubSeq(d, 1, h)), MaxUint64Digits),
              LAMBDA j : IF d[j] \notin AsciiDigit THEN "syntax" ELSE "range")
    ELSE ""

\* strconv.ParseInt(s, 10, 64), with which ParseInt(s, 10, 0) and the short
\* path of strconv.Atoi agree where int has 64 bits: err is "", "syntax" or
\* "range"; neg tells a minus sign and mag is the magnitude, its digits
\* without leading zeros (<<"0">> for zero)
ParseIntDigits(runes) ==
    LET signed == runes # <<>> /\ runes[1] \in {"+", "-"}
        neg    == runes # <<>> /\ runes[1] = "-"
        d      == IF signed THEN Tail(runes) ELSE runes
        mag    == IF StripZeros(d) = <<>> THEN <<"0">> ELSE StripZeros(d)
    IN  IF d = <<>> THEN [err |-> "syntax", neg |-> FALSE, mag |-> <<>>]
        ELSE IF FirstUintError(d) # "" THEN [err |-> FirstUintError(d), neg |-> FALSE, mag |-> <<>>]
        ELSE IF ~MagnitudeLE(mag, IF neg THEN MinInt64Digits ELSE MaxInt64Digits)
        THEN [err |-> "range", neg |-> FALSE, mag |-> <<>>]
        ELSE [err |-> "", neg |-> neg /\ mag # <<"0">>, mag |-> mag]

\* strconv.ParseInt(val, 10, 64): err is "", "syntax" or "range"
ParseInt(val) ==
    With(ParseIntDigits(val), LAMBDA a :
        IF a.err # "" THEN [err |-> a.err, i |-> 0]
        ELSE [err |-> "", i |-> IF a.neg THEN 0 - NatOf(a.mag) ELSE NatOf(a.mag)])

\* strconv lower: the ASCII lower case of a letter
lower(c) ==
    IF \E i \in 34..59 : AsciiPrintable[i] = c
    THEN AsciiPrintable[(CHOOSE i \in 34..59 : AsciiPrintable[i] = c) + 32]
    ELSE c

LowerText(t) == [j \in 1..Len(t) |-> lower(t[j])]

\* strconv special: the whole text is inf or infinity (optionally signed) or nan
special(val) ==
    LET signed == val # <<>> /\ val[1] \in {"+", "-"}
        rest   == LowerText(IF signed THEN Tail(val) ELSE val)
    IN  \/ rest = <<"i","n","f">>
        \/ rest = <<"i","n","f","i","n","i","t","y">>
        \/ ~signed /\ rest = <<"n","a","n">>

HexLetters == <<"a", "b", "c", "d", "e", "f">>

\* a digit of the mantissa: 0-9, and a-f in a hexadecimal literal
isMantissaDigit(c, hex) ==
    c \in AsciiDigit \/ (hex /\ \E i \in 1..6 : HexLetters[i] = lower(c))

\* strconv readFloat, the loop over the mantissa from index start: rune j
\* ends it when it is no digit, underscore or point, or is a second point
endsMantissa(t, start, j, hex) ==
    \/ j > Len(t)
    \/ ~(isMantissaDigit(t[j], hex) \/ t[j] \in {"_", "."})
    \/ t[j] = "." /\ \E i \in start..(j - 1) : t[i] = "."

\* strconv readFloat, the loop over the mantissa from index start: the
\* index j after it, the digits before the point and the digits after it
readMantissa(t, start, hex) ==
    LET j   == CHOOSE e \in start..(Len(t) + 1) :
                   endsMantissa(t, start, e, hex)
                   /\ \A i \in start..(e - 1) : ~endsMantissa(t, start, i, hex)
        dot == IF \E i \in start..(j - 1) : t[i] = "."
               THEN CHOOSE i \in start..(j - 1) : t[i] = "." ELSE j
    IN  [j    |-> j,
         int  |-> LowerText(SelectSeq(SubSeq(t, start, dot - 1), LAMBDA c : c # "_")),
         frac |-> LowerText(SelectSeq(SubSeq(t, dot + 1, j - 1), LAMBDA c : c # "_"))]

RECURSIVE exponentEnd(_, _)
\* strconv readFloat, exponent digits: the index after them
exponentEnd(t, j) ==
    IF j <= Len(t) /\ (t[j] \in AsciiDigit \/ t[j] = "_")
    THEN exponentEnd(t, j + 1) ELSE j

RECURSIVE exponentValue(_, _, _, _)
\* strconv readFloat, the exponent of the digits t[j..stop-1]: it grows no
\* more once it has passed 10000
exponentValue(t, j, stop, e) ==
    IF j >= stop THEN e
    ELSE IF t[j] = "_" THEN exponentValue(t, j + 1, stop, e)
    ELSE exponentValue(t, j + 1, stop, IF e < 10000 THEN e * 10 + DigitVal(t[j]) ELSE e)

RECURSIVE underscoreOKFrom(_, _, _, _)
\* strconv underscoreOK, the loop from index j: saw is "^", "0", "_" or "!"
underscoreOKFrom(t, j, saw, hex) ==
    IF j > Len(t) THEN saw # "_"
    ELSE IF isMantissaDigit(t[j], hex) THEN underscoreOKFrom(t, j + 1, "0", hex)
    ELSE IF t[j] = "_" THEN saw = "0" /\ underscoreOKFrom(t, j + 1, "_", hex)
    ELSE saw # "_" /\ underscoreOKFrom(t, j + 1, "!", hex)

\* strconv underscoreOK: an underscore stands between digits or between
\* the base prefix and a digit
underscoreOK(t) ==
    LET u == IF t # <<>> /\ t[1] \in {"+", "-"} THEN Tail(t) ELSE t
        prefixed == Len(u) >= 2 /\ u[1] = "0" /\ lower(u[2]) \in {"b", "o", "x"}
    IN  IF prefixed THEN underscoreOKFrom(u, 3, "0", lower(u[2]) = "x")
        ELSE underscoreOKFrom(u, 1, "^", FALSE)

\* strconv readFloat: ok, the number n of runes read, whether the literal
\* is hexadecimal, the digits of the mantissa without leading zeros, the
\* number dp of them that stand before the point, and the exponent
readFloat(val) ==
    With(IF val # <<>> /\ val[1] \in {"+", "-"} THEN 2 ELSE 1, LAMBDA first :
    With(first + 2 <= Len(val) /\ val[first] = "0" /\ lower(val[first + 1]) = "x", LAMBDA hex :
    With(readMantissa(val, IF hex THEN first + 2 ELSE first, hex), LAMBDA mant :
    With(mant.j <= Len(val) /\ lower(val[mant.j]) = (IF hex THEN "p" ELSE "e"), LAMBDA hasExp :
    With(IF mant.j + 1 <= Len(val) /\ val[mant.j + 1] \in {"+", "-"}
         THEN mant.j + 2 ELSE mant.j + 1, LAMBDA k :
    With(IF hasExp THEN exponentEnd(val, k) ELSE mant.j, LAMBDA stop :
    With(mant.int \o mant.frac, LAMBDA all :
    With(IF \E i \in 1..Len(all) : all[i] # "0"
         THEN CHOOSE i \in 1..Len(all) :
                  all[i] # "0" /\ \A u \in 1..(i - 1) : all[u] = "0"
         ELSE Len(all) + 1, LAMBDA nz :
    With(SubSeq(all, nz, Len(all)), LAMBDA sig :
        [ok   |-> /\ all # <<>>
                  /\ hasExp => (k <= Len(val) /\ val[k] \in AsciiDigit)
                  /\ hex => hasExp
                  /\ (\E u \in 1..(stop - 1) : val[u] = "_")
                        => underscoreOK(SubSeq(val, 1, stop - 1)),
         n    |-> stop - 1,
         hex  |-> hex,
         sig  |-> sig,
         dp   |-> Len(mant.int) - (Len(all) - Len(sig)),
         exp  |-> IF hasExp /\ k <= Len(val)
                  THEN (IF val[mant.j + 1] = "-" THEN 0 - 1 ELSE 1)
                       * exponentValue(val, k, stop, 0)
                  ELSE 0])))))))))

\* 2^1024 - 2^970: the least number that rounds to no float64.  The largest
\* float64 is 2^1024 - 2^971, and the number half-way from it to 2^1024
\* rounds to the even neighbour, which is 2^1024
FloatOverflowDigits ==
    <<
       "1","7","9","7","6","9","3","1","3","4","8","6","2","3","1","5","8","0","7","9",
       "3","7","2","8","9","7","1","4","0","5","3","0","3","4","1","5","0","7","9","9",
       "3","4","1","3","2","7","1","0","0","3","7","8","2","6","9","3","6","1","7","3",
       "7","7","8","9","8","0","4","4","4","9","6","8","2","9","2","7","6","4","7","5",
       "0","9","4","6","6","4","9","0","1","7","9","7","7","5","8","7","2","0","7","0",
       "9","6","3","3","0","2","8","6","4","1","6","6","9","2","8","8","7","9","1","0",
       "9","4","6","5","5","5","5","4","7","8","5","1","9","4","0","4","0","2","6","3",
       "0","6","5","7","4","8","8","6","7","1","5","0","5","8","2","0","6","8","1","9",
       "0","8","9","0","2","0","0","0","7","0","8","3","8","3","6","7","6","2","7","3",
       "8","5","4","8","4","5","8","1","7","7","1","1","5","3","1","7","6","4","4","7",
       "5","7","3","0","2","7","0","0","6","9","8","5","5","5","7","1","3","6","6","9",
       "5","9","6","2","2","8","4","2","9","1","4","8","1","9","8","6","0","8","3","4",
       "9","3","6","4","7","5","2","9","2","7","1","9","0","7","4","1","6","8","4","4",
       "4","3","6","5","5","1","0","7","0","4","3","4","2","7","1","1","5","5","9","6",
       "9","9","5","0","8","0","9","3","0","4","2","8","8","0","1","7","7","9","0","4",
       "1","7","4","4","9","7","7","9","2" >>

\* a >= b for two digit texts that start at the same decimal place,
\* the shorter one going on with zeros
DigitsGE(a, b) ==
    LET at(j) == IF j <= Len(a) THEN DigitVal(a[j]) ELSE 0
    IN  ~\E j \in 1..Len(b) :
            at(j) < DigitVal(b[j]) /\ \A i \in 1..(j - 1) : at(i) = DigitVal(b[i])

\* the value of a hexadecimal digit
HexVal(c) == IF c \in AsciiDigit THEN DigitVal(c) ELSE 9 + CHOOSE i \in 1..6 : HexLetters[i] = c

\* the bits of a text of hexadecimal digits, four for each
HexBits(h) ==
    [j \in 1..(4 * Len(h)) |->
        LET v == HexVal(h[(j + 3) \div 4])
            k == (j - 1) % 4
        IN  IF k = 0 THEN v \div 8
            ELSE IF k = 1 THEN (v \div 4) % 2
            ELSE IF k = 2 THEN (v \div 2) % 2
            ELSE v % 2]

RECURSIVE StripZeroBits(_)
StripZeroBits(b) == IF b # <<>> /\ b[1] = 0 THEN StripZeroBits(Tail(b)) ELSE b

\* the literal read by readFloat is beyond the range of float64: it rounds
\* to 2^1024 or more, and ParseFloat returns the error of range
FloatOverflows(f) ==
    IF f.sig = <<>> THEN FALSE
    ELSE IF f.hex
    THEN LET bits == StripZeroBits(HexBits(f.sig))
             e2   == 4 * f.dp - (4 * Len(f.sig) - Len(bits)) + f.exp
         IN  \/ e2 > 1024
             \/ e2 = 1024 /\ Len(bits) >= 54 /\ \A j \in 1..54 : bits[j] = 1
    ELSE \/ f.dp + f.exp > 309
         \/ f.dp + f.exp = 309 /\ DigitsGE(f.sig, FloatOverflowDigits)

\* strconv.ParseFloat(val, 64) returns no error: a special name, or a
\* decimal or hexadecimal literal that is read to its end and is within the
\* range of float64
ParseFloatOK(val) ==
    \/ special(val)
    \/ With(readFloat(val), LAMBDA f : f.ok /\ f.n = Len(val) /\ ~FloatOverflows(f))

\* a null literal in any mix of upper and lower case
NullTextsAnyCase ==
    {"null", "NULL", "Null", "nULL", "NUll", "nulL", "nUll", "nuLl", "NuLL"}

\* the texts tryParse turns into nil
NullTexts == {"null", "NULL", "Null"}

\* tryParse
tryParse(val) ==
    With(ParseBool(val), LAMBDA b :
        IF b.ok THEN Bool(b.b)
        ELSE With(ParseInt(val), LAMBDA i :
                IF i.err = "" THEN Int64(i.i)
                ELSE IF ParseFloatOK(val) THEN Float64(val)
                ELSE IF Str(val) \in NullTexts THEN Null
                ELSE String(val)))

-----------------------------------------------------------------------------
(* The builder: src/builder.go.  A builder is the chain of cursors from    *)
(* the root cursor to itself, so that the parent of b[i] is b[i-1].  Go    *)
(* maps and slices are references: a cursor that reuses a container holds  *)
(* the very container its parent's slot holds, and a write through the     *)
(* cursor is a write to that slot.  The chain carries the containers as    *)
(* values and set hands each written container to the parent, which stores *)
(* it in its slot, as the code does.                                       *)
(* An index is the int strconv.Atoi returned, kept as its decimal digits,  *)
(* so that the largest int, whose successor wraps around, is an index.     *)
(* A slice of a thousand million elements or fewer is the sequence of its  *)
(* elements.  A longer one is kept sparse: its length, as digits, and the  *)
(* elements that are not nil, by index; the value is BigArray and a cursor *)
(* over it has the kind "bigarray".  set grows a slice with make and       *)
(* append.  Each of the two panics when it is asked for more than maxAlloc *)
(* bytes; below that the allocation either succeeds or, on a machine       *)
(* without that much memory, ends the process with the fatal error `out of *)
(* memory`, which is no panic and cannot be recovered.  Which of the two   *)
(* happens is not decided by the program: set reports oom, the process may *)
(* have died at this allocation, and the caller's step takes either course.*)

\* b.index+1 wraps around to the smallest int
IndexPlusOneWraps(index) == index = MaxInt64Digits

\* a negative int
IndexNegative(index) == index # <<>> /\ index[1] = "-"

\* maxAlloc / 16: the most elements of type interface{} (16 bytes) a slice
\* can have; maxAlloc is 1 << 48 on linux/amd64
MaxElements == <<"1","7","5","9","2","1","8","6","0","4","4","4","1","6">>

\* the length up to which the model takes an allocation to succeed
ThousandMillion == <<"1","0","0","0","0","0","0","0","0","0">>

RECURSIVE AddDigitsCarry(_, _, _)
AddDigitsCarry(a, b, carry) ==
    IF a = <<>> /\ b = <<>> THEN (IF carry = 0 THEN <<>> ELSE <<"1">>)
    ELSE LET x == IF a = <<>> THEN 0 ELSE DigitVal(a[Len(a)])
             y == IF b = <<>> THEN 0 ELSE DigitVal(b[Len(b)])
             fa == IF a = <<>> THEN a ELSE SubSeq(a, 1, Len(a) - 1)
             fb == IF b = <<>> THEN b ELSE SubSeq(b, 1, Len(b) - 1)
         IN  Append(AddDigitsCarry(fa, fb, (x + y + carry) \div 10),
                    DecDigits[((x + y + carry) % 10) + 1])

\* the sum of two numbers given by their digits
AddDigits(a, b) == AddDigitsCarry(a, b, 0)

\* an index of a thousand million or more: a slice that reaches it is kept
\* sparse, and the allocation of one may exhaust the memory
IndexBeyondMemory(index) ==
    ~IndexNegative(index) /\ MagnitudeLE(ThousandMillion, index)

\* a slice of more than a thousand million elements
BigArray(len, at) == [k |-> "bigarr", len |-> len, at |-> at]

\* newRootBuilder
newRootBuilder(m) == <<[kind |-> "root", m |-> m]>>

mapBuilder(m, key) == [kind |-> "map", m |-> m, key |-> key]
arrayBuilder(a, index) == [kind |-> "array", a |-> a, index |-> index]
bigArrayBuilder(v, index) == [kind |-> "bigarray", len |-> v.len, at |-> v.at, index |-> index]

\* &arrayBuilder{a: a, ...} for the slice a type assertion has found
arrayBuilderOver(v, index) ==
    IF v.k = "arr" THEN arrayBuilder(v.a, index) ELSE bigArrayBuilder(v, index)

\* a cursor of an arrayBuilder
isArrayBuilder(c) == c.kind \in {"array", "bigarray"}

\* the type assertion .([]interface{}) succeeds
isSlice(v) == v.k \in {"arr", "bigarr"}

\* len(b.a), as digits
SliceLen(c) == IF c.kind = "array" THEN ItoaRunes(Len(c.a)) ELSE c.len

\* len(b.a) >= b.index+1
LenAtLeastIndexPlusOne(c) ==
    \/ IndexPlusOneWraps(c.index)
    \/ IndexNegative(c.index)
    \/ ~MagnitudeLE(SliceLen(c), c.index)

\* the access b.a[b.index], made when len(b.a) >= b.index+1, is out of
\* range (a panic): index+1 wrapped around, or the index is negative
arraySlotPanics(c) == IndexPlusOneWraps(c.index) \/ IndexNegative(c.index)

\* b.a[b.index] for an index within the slice
SlotValue(c) ==
    IF c.kind = "array" THEN c.a[NatOf(c.index) + 1]
    ELSE IF c.index \in DOMAIN c.at THEN c.at[c.index]
    ELSE Null

\* a child map cursor that never looks at the slot: always a new map
newMapBuilderAlwaysFresh(b, key) ==
    LET c == b[Len(b)]
    IN  IF c.kind = "root"
        THEN [panic |-> FALSE, b |-> Append(b, mapBuilder(c.m, key))]
        ELSE [panic |-> FALSE, b |-> Append(b, mapBuilder(<<>>, key))]

\* rootBuilder.newMapBuilder, mapBuilder.newMapBuilder, arrayBuilder.newMapBuilder
newMapBuilder(b, key) ==
    LET c == b[Len(b)]
    IN  CASE c.kind = "root" ->
               [panic |-> FALSE, b |-> Append(b, mapBuilder(c.m, key))]
          [] c.kind = "map" ->
               IF c.key \in DOMAIN c.m /\ c.m[c.key].k = "map"
               THEN [panic |-> FALSE, b |-> Append(b, mapBuilder(c.m[c.key].m, key))]
               ELSE [panic |-> FALSE, b |-> Append(b, mapBuilder(<<>>, key))]
          [] isArrayBuilder(c) ->
               IF LenAtLeastIndexPlusOne(c) /\ arraySlotPanics(c)
               THEN [panic |-> TRUE, b |-> b]
               ELSE IF LenAtLeastIndexPlusOne(c) /\ SlotValue(c).k = "map"
               THEN [panic |-> FALSE, b |-> Append(b, mapBuilder(SlotValue(c).m, key))]
               ELSE [panic |-> FALSE, b |-> Append(b, mapBuilder(<<>>, key))]

\* a child array cursor that never looks at the slot: always a new array
newArrayBuilderAlwaysFresh(b, index) ==
    [panic |-> FALSE, b |-> Append(b, arrayBuilder(<<>>, index))]

\* mapBuilder.newArrayBuilder, arrayBuilder.newArrayBuilder
newArrayBuilder(b, index) ==
    LET c == b[Len(b)]
    IN  CASE c.kind = "map" ->
               IF c.key \in DOMAIN c.m /\ isSlice(c.m[c.key])
               THEN [panic |-> FALSE, b |-> Append(b, arrayBuilderOver(c.m[c.key], index))]
               ELSE [panic |-> FALSE, b |-> Append(b, arrayBuilder(<<>>, index))]
          [] isArrayBuilder(c) ->
               IF LenAtLeastIndexPlusOne(c) /\ arraySlotPanics(c)
               THEN [panic |-> TRUE, b |-> b]
               ELSE IF LenAtLeastIndexPlusOne(c) /\ isSlice(SlotValue(c))
               THEN [panic |-> FALSE, b |-> Append(b, arrayBuilderOver(SlotValue(c), index))]
               ELSE [panic |-> FALSE, b |-> Append(b, arrayBuilder(<<>>, index))]

\* a store that builds the map anew around the written key
mapStoreDropsSiblings(m, key, val) == [x \in {key} |-> val]

\* mapBuilder.set, first statement: b.m[b.key] = val
mapStore(m, key, val) == [x \in DOMAIN m \cup {key} |-> IF x = key THEN val ELSE m[x]]

\* a store that appends the value to an array that is long enough
arrayStoreAppends(a, index, val) ==
    LET n     == NatOf(index)
        add   == n + 1 - Len(a)
    IN  IF Len(a) < n + 1
        THEN [(a \o [j \in 1..add |-> Null]) EXCEPT ![n + 1] = val]
        ELSE Append(a, val)

\* a store that cuts the array off behind the written index
arrayStoreTruncates(a, index, val) ==
    LET n     == NatOf(index)
        add   == n + 1 - Len(a)
        grown == IF Len(a) < n + 1 THEN a \o [j \in 1..add |-> Null] ELSE SubSeq(a, 1, n + 1)
    IN  [grown EXCEPT ![n + 1] = val]

\* arrayBuilder.set, lines 97-101: grow with nil up to index+1, then a[index] = val
arrayStore(a, index, val) ==
    LET n     == NatOf(index)
        add   == n + 1 - Len(a)
        grown == IF Len(a) < n + 1 THEN a \o [j \in 1..add |-> Null] ELSE a
    IN  [grown EXCEPT ![n + 1] = val]

\* the elements of a slice that are not nil, by index
SparseOf(c) ==
    IF c.kind = "bigarray" THEN c.at
    ELSE [d \in {ItoaRunes(j - 1) : j \in {u \in 1..Len(c.a) : c.a[u] # Null}}
             |-> c.a[NatOf(d) + 1]]

\* a sparse slice with val at index
SparseStore(at, index, val) ==
    IF val = Null THEN [d \in DOMAIN at \ {index} |-> at[d]]
    ELSE [d \in DOMAIN at \cup {index} |-> IF d = index THEN val ELSE at[d]]

\* make([]interface{}, add) panics with `len out of range`: add, which is
\* index+1-len(b.a), is more than MaxElements
makePanics(c) == MagnitudeLE(AddDigits(SliceLen(c), MaxElements), c.index)

\* append panics in growslice with `len out of range`: the index+1 elements
\* of the grown slice are more than MaxElements
growPanics(c) == MagnitudeLE(MaxElements, c.index)

\* arrayBuilder.set, lines 97-101, for a slice that is or becomes a big one:
\* panic, whether the process may have died of an allocation before that,
\* and the slice afterwards.  Every growth of a big slice may allocate: the
\* capacity an earlier append left behind depends on the runtime
bigArraySet(c, val) ==
    IF LenAtLeastIndexPlusOne(c)
    THEN [panic |-> arraySlotPanics(c), oom |-> FALSE,
          a |-> IF arraySlotPanics(c) THEN Null
                ELSE BigArray(c.len, SparseStore(c.at, c.index, val))]
    ELSE [panic |-> makePanics(c) \/ growPanics(c),
          oom   |-> /\ ~makePanics(c)
                    /\ \/ MagnitudeLE(AddDigits(SliceLen(c), ThousandMillion), c.index)
                       \/ ~growPanics(c),
          a     |-> IF makePanics(c) \/ growPanics(c) THEN Null
                    ELSE BigArray(AddDigits(c.index, <<"1">>),
                                  SparseStore(SparseOf(c), c.index, val))]

\* arrayBuilder.set, lines 97-101: panic, oom and the slice afterwards
arraySet(c, val) ==
    IF c.kind = "bigarray" \/ IndexBeyondMemory(c.index) THEN bigArraySet(c, val)
    ELSE IF arraySlotPanics(c) THEN [panic |-> TRUE, oom |-> FALSE, a |-> Null]
    ELSE [panic |-> FALSE, oom |-> FALSE, a |-> Array(arrayStore(c.a, c.index, val))]

RECURSIVE setFromLosesFresh(_, _, _)
\* a set without the call of parent.set: the write of a cursor reaches the
\* caller's map only through containers the parents' slots already hold
setFromLosesFresh(b, i, val) ==
    LET c == b[i]
        parentHolds(v) ==
            LET p == b[i - 1]
            IN  CASE p.kind = "root" -> TRUE
                  [] p.kind = "map" -> p.key \in DOMAIN p.m /\ p.m[p.key] = v
                  [] p.kind = "array" ->
                       /\ ~IndexBeyondMemory(p.index) /\ ~arraySlotPanics(p)
                       /\ NatOf(p.index) < Len(p.a)
                       /\ p.a[NatOf(p.index) + 1] = v
                  [] p.kind = "bigarray" -> FALSE
    IN  CASE c.kind = "root" -> [panic |-> FALSE, oom |-> FALSE, m |-> val.m]
          [] c.kind = "map" ->
               IF ~parentHolds(Map(c.m)) THEN [panic |-> FALSE, oom |-> FALSE, m |-> b[1].m]
               ELSE setFromLosesFresh(b, i - 1, Map(mapStore(c.m, c.key, val)))
          [] c.kind = "array" ->
               IF arraySlotPanics(c) \/ IndexBeyondMemory(c.index)
               THEN [panic |-> TRUE, oom |-> FALSE, m |-> b[1].m]
               ELSE IF ~parentHolds(Array(c.a)) \/ Len(c.a) < NatOf(c.index) + 1
               THEN [panic |-> FALSE, oom |-> FALSE, m |-> b[1].m]
               ELSE setFromLosesFresh(b, i - 1, Array(arrayStore(c.a, c.index, val)))
          [] c.kind = "bigarray" -> [panic |-> FALSE, oom |-> FALSE, m |-> b[1].m]

RECURSIVE setFrom(_, _, _)
\* the set of cursor b[i] and, through parent.set, of all its ancestors;
\* m is the caller's map afterwards.  rootBuilder.set does nothing: the map
\* handed to it is the caller's own map, written in place by its child.
setFrom(b, i, val) ==
    LET c == b[i]
    IN  CASE c.kind = "root" -> [panic |-> FALSE, oom |-> FALSE, m |-> val.m]
          [] c.kind = "map" -> setFrom(b, i - 1, Map(mapStore(c.m, c.key, val)))
          [] isArrayBuilder(c) ->
               With(arraySet(c, val), LAMBDA st :
                   IF st.panic THEN [panic |-> TRUE, oom |-> st.oom, m |-> b[1].m]
                   ELSE With(setFrom(b, i - 1, st.a), LAMBDA up :
                           [up EXCEPT !.oom = @ \/ st.oom]))

\* builder.set on the last cursor of the chain
set(b, val) == setFrom(b, Len(b), val)

-----------------------------------------------------------------------------
(* The parser of MergeValue / MergeString: src/parser.go.  A parser is the *)
(* sequence of tokens its lexer delivers and the number of tokens received *)
(* so far.  Every read function gives                                      *)
(*   err: the error message, "" when there is none;                        *)
(*   panic: whether the call ended in a run-time panic;                    *)
(*   oom: whether the process may have died, out of memory, on the way;    *)
(*   m: the caller's map afterwards;  recv: the tokens received.           *)

\* the parser of MergeValue and MergeString: lex is newLex(str)
newParser(str, rightValueReader) ==
    [toks |-> run(str), recv |-> 0, rightValueReader |-> rightValueReader]

\* the token a receive on the closed channel gives: the zero token
zeroToken == [TokenType |-> "tokenEnd", position |-> 0, value |-> "", runes |-> <<>>]

\* parser.nextToken
nextToken(p) ==
    [tok |-> IF p.recv < Len(p.toks) THEN p.toks[p.recv + 1] ELSE zeroToken,
     p   |-> [p EXCEPT !.recv = @ + 1]]

\* tokenToError
tokenToError(tok) ==
    IF tok.TokenType = "tokenError" THEN tok.value
    ELSE "unexpected \"" \o tok.value \o "\""

\* the text of a *strconv.NumError of Atoi
NumError(tok, e) ==
    "strconv.Atoi: parsing \"" \o tok.value \o "\": "
        \o (IF e = "syntax" THEN "invalid syntax" ELSE "value out of range")

\* a conversion that takes a literal beyond the largest int for the index 0
AtoiSaturates(tok) ==
    With(ParseIntDigits(tok.runes), LAMBDA a :
        IF a.err = "syntax" THEN [err |-> NumError(tok, a.err), index |-> <<>>]
        ELSE IF a.err = "range" THEN [err |-> "", index |-> <<"0">>]
        ELSE [err |-> "", index |-> IF a.neg THEN <<"-">> \o a.mag ELSE a.mag])

\* strconv.Atoi: the int is given by its digits without leading zeros, a
\* minus sign before them when it is negative
Atoi(tok) ==
    With(ParseIntDigits(tok.runes), LAMBDA a :
        IF a.err # "" THEN [err |-> NumError(tok, a.err), index |-> <<>>]
        ELSE [err |-> "", index |-> IF a.neg THEN <<"-">> \o a.mag ELSE a.mag])

\* parser.readRightValue
readRightValue(p) ==
    With(nextToken(p), LAMBDA nt :
        CASE nt.tok.TokenType = "tokenEnd" -> [err |-> "", val |-> String(<<>>), p |-> nt.p]
          [] nt.tok.TokenType = "tokenValue" -> [err |-> "", val |-> tryParse(nt.tok.runes), p |-> nt.p]
          [] OTHER -> [err |-> tokenToError(nt.tok), val |-> Null, p |-> nt.p])

\* a reader of right-hand strings that coerces as readRightValue does
readRightStringCoerces(p) ==
    With(nextToken(p), LAMBDA nt :
        CASE nt.tok.TokenType = "tokenEnd" -> [err |-> "", val |-> String(<<>>), p |-> nt.p]
          [] nt.tok.TokenType = "tokenValue" -> [err |-> "", val |-> tryParse(nt.tok.runes), p |-> nt.p]
          [] OTHER -> [err |-> tokenToError(nt.tok), val |-> Null, p |-> nt.p])

\* a reader of right-hand strings that takes a missing text for an error
readRightStringRejectsEnd(p) ==
    With(nextToken(p), LAMBDA nt :
        CASE nt.tok.TokenType = "tokenValue" -> [err |-> "", val |-> String(nt.tok.runes), p |-> nt.p]
          [] OTHER -> [err |-> tokenToError(nt.tok), val |-> Null, p |-> nt.p])

\* parser.readRightString
readRightString(p) ==
    With(nextToken(p), LAMBDA nt :
        CASE nt.tok.TokenType = "tokenEnd" -> [err |-> "", val |-> String(<<>>), p |-> nt.p]
          [] nt.tok.TokenType = "tokenValue" -> [err |-> "", val |-> String(nt.tok.runes), p |-> nt.p]
          [] OTHER -> [err |-> tokenToError(nt.tok), val |-> Null, p |-> nt.p])

RECURSIVE TrimQuotesLeft(_)
TrimQuotesLeft(t) == IF t # <<>> /\ t[1] = "'" THEN TrimQuotesLeft(Tail(t)) ELSE t

RECURSIVE TrimQuotesRight(_)
TrimQuotesRight(t) ==
    IF t # <<>> /\ t[Len(t)] = "'" THEN TrimQuotesRight(SubSeq(t, 1, Len(t) - 1)) ELSE t

\* strings.Trim(tok.value, "'"): drops every leading and trailing quote
TrimQuotes(t) == TrimQuotesRight(TrimQuotesLeft(t))

RECURSIVE readValuesArray(_, _, _)
\* parser.readValuesArray of Unmarshal (src/unnamed/part_002)
readValuesArray(p, arr, valueDefined) ==
    With(nextToken(p), LAMBDA nt :
        CASE nt.tok.TokenType = "tokenValue" ->
               readValuesArray(nt.p, Append(arr, tryParse(nt.tok.runes)), TRUE)
          [] nt.tok.TokenType = "tokenString" ->
               readValuesArray(nt.p, Append(arr, String(TrimQuotes(nt.tok.runes))), TRUE)
          [] nt.tok.TokenType = "tokenNextValue" ->
               readValuesArray(nt.p, IF ~valueDefined THEN Append(arr, Null) ELSE arr, FALSE)
          [] nt.tok.TokenType = "tokenValueArrayFinish" ->
               [err |-> "", val |-> Array(arr), p |-> nt.p]
          [] OTHER -> [err |-> tokenToError(nt.tok), val |-> Null, p |-> nt.p])

\* parser.readRightValue of Unmarshal (src/unnamed/part_002)
readRightValueU(p) ==
    With(nextToken(p), LAMBDA nt :
        CASE nt.tok.TokenType = "tokenEnd" -> [err |-> "", val |-> String(<<>>), p |-> nt.p]
          [] nt.tok.TokenType = "tokenValue" -> [err |-> "", val |-> tryParse(nt.tok.runes), p |-> nt.p]
          [] nt.tok.TokenType = "tokenString" ->
               [err |-> "", val |-> String(TrimQuotes(nt.tok.runes)), p |-> nt.p]
          [] nt.tok.TokenType = "tokenVerbatimString" ->
               [err |-> "", val |-> String(nt.tok.runes), p |-> nt.p]
          [] nt.tok.TokenType = "tokenValueArrayStart" -> readValuesArray(nt.p, <<>>, FALSE)
          [] OTHER -> [err |-> tokenToError(nt.tok), val |-> Null, p |-> nt.p])

\* p.rightValueReader(); the parser of Unmarshal calls its own readRightValue
rightValueReader(p) ==
    CASE p.rightValueReader = "readRightValue" -> readRightValue(p)
      [] p.rightValueReader = "readRightString" -> readRightString(p)
      [] p.rightValueReader = "readRightValueU" -> readRightValueU(p)

\* a failing read function after a descent that had put every container it
\* came to into the tree at once: the container of the last cursor is set
FailedAfterCreating(e, p, b) ==
    LET c == b[Len(b)]
        made == IF c.kind = "array" THEN Array(c.a)
                ELSE IF c.kind = "bigarray" THEN BigArray(c.len, c.at)
                ELSE Map(c.m)
        st == setFrom(b, Len(b) - 1, made)
    IN  [err |-> e, panic |-> FALSE, oom |-> FALSE,
         m |-> IF Len(b) > 1 /\ ~st.panic THEN st.m ELSE b[1].m,
         recv |-> p.recv]

\* a read function returning the error e
Failed(e, p, b) ==
    [err |-> e, panic |-> FALSE, oom |-> FALSE, m |-> b[1].m, recv |-> p.recv]

\* a read function ending in a panic
Panicked(p, b) ==
    [err |-> "", panic |-> TRUE, oom |-> FALSE, m |-> b[1].m, recv |-> p.recv]

RECURSIVE readMap(_, _), readLeftValue(_, _), readArray(_, _)

\* parser.readMap
readMap(p, b) ==
    With(nextToken(p), LAMBDA nt :
        IF nt.tok.TokenType = "tokenMapKey"
        THEN With(newMapBuilder(b, nt.tok.value), LAMBDA nb :
                IF nb.panic THEN Panicked(nt.p, b) ELSE readLeftValue(nt.p, nb.b))
        ELSE Failed(tokenToError(nt.tok), nt.p, b))

\* parser.readLeftValue
readLeftValue(p, b) ==
    With(nextToken(p), LAMBDA nt :
        CASE nt.tok.TokenType = "tokenMapKeySeparator" -> readMap(nt.p, b)
          [] nt.tok.TokenType = "tokenArrayIndexStart" -> readArray(nt.p, b)
          [] nt.tok.TokenType = "tokenAssignment" ->
               With(rightValueReader(nt.p), LAMBDA rv :
                   IF rv.err # "" THEN Failed(rv.err, rv.p, b)
                   ELSE With(set(b, rv.val), LAMBDA st :
                           [err |-> "", panic |-> st.panic, oom |-> st.oom,
                            m |-> st.m, recv |-> rv.p.recv]))
          [] OTHER -> Failed(tokenToError(nt.tok), nt.p, b))

\* parser.readArray
readArray(p, b) ==
    With(nextToken(p), LAMBDA nt :
        IF nt.tok.TokenType = "tokenArrayIndex"
        THEN With(Atoi(nt.tok), LAMBDA ai :
                IF ai.err # "" THEN Failed(ai.err, nt.p, b)
                ELSE With(nextToken(nt.p), LAMBDA nt2 :
                        IF nt2.tok.TokenType = "tokenArrayIndexFinish"
                        THEN With(newArrayBuilder(b, ai.index), LAMBDA nb :
                                IF nb.panic THEN Panicked(nt2.p, b)
                                ELSE readLeftValue(nt2.p, nb.b))
                        ELSE Failed(tokenToError(nt2.tok), nt2.p, b)))
        ELSE Failed(tokenToError(nt.tok), nt.p, b))

\* parser.append
append(p, m) == readMap(p, newRootBuilder(m))

\* MergeValue
MergeValue(m, str) == append(newParser(str, "readRightValue"), m)

\* MergeString
MergeString(m, str) == append(newParser(str, "readRightString"), m)

-----------------------------------------------------------------------------
(* The tokenizer of Unmarshal: src/unnamed/part_004.  It shares read,      *)
(* unread, skipLast, peek, emit and scanArrayIndex with the tokenizer      *)
(* above; the functions that differ carry the suffix U.                    *)

\* var leftValueChars, rightValueChars, stringChars: the keys of the maps
leftValueChars == {"=", ".", "["}
rightValueChars == {",", "{", "}"}
stringChars == {"'"}

\* isCharInSet: true of the runes that are not keys of the map
isCharInSet(r, charSet) == r \notin charSet

\* lex.error of part_004: the message alone
errorU(l, msg) == [l EXCEPT !.tokens = Append(@, errorToken(l.start, msg))]

RECURSIVE scanU(_, _)
\* lex.scan of part_004
scanU(l, charSet) ==
    With(read(l), LAMBDA rd :
        IF rd.r = end THEN unread(rd.l)
        ELSE IF rd.r = "\\" THEN
            With(peek(rd.l), LAMBDA pk :
                IF ~isCharInSet(pk.r, charSet)
                THEN scanU(read(skipLast(pk.l)).l, charSet)
                ELSE scanU(read(pk.l).l, charSet))
        ELSE IF isCharInSet(rd.r, charSet) THEN scanU(rd.l, charSet)
        ELSE unread(rd.l))

\* lexMapKey of part_004
lexMapKeyU(l) ==
    With(read(l), LAMBDA rd :
        IF rd.r # end /\ isCharInSet(rd.r, leftValueChars)
        THEN [l |-> emit(scanU(unread(rd.l), leftValueChars), "tokenMapKey"),
              next |-> "lexLeftValue"]
        ELSE [l |-> errorU(rd.l, "unexpected " \o RuneString(rd.r) \o ", expecting a map key"),
              next |-> "nil"])

\* lexLeftValue of part_004
lexLeftValueU(l) ==
    With(read(l), LAMBDA rd :
        IF rd.r = "." THEN [l |-> emit(rd.l, "tokenMapKeySeparator"), next |-> "lexMapKey"]
        ELSE IF rd.r = "[" THEN [l |-> emit(rd.l, "tokenArrayIndexStart"), next |-> "lexArrayIndex"]
        ELSE IF rd.r = "=" THEN [l |-> emit(rd.l, "tokenAssignment"), next |-> "lexRightValue"]
        ELSE [l |-> errorU(rd.l, "unexpected " \o RuneString(rd.r) \o ", expecting '.', '=' or '['"),
              next |-> "nil"])

\* lexArrayIndex of part_004
lexArrayIndexU(l) ==
    With(read(l), LAMBDA rd :
        IF ~isArrayIndexChar(rd.r)
        THEN [l |-> errorU(rd.l, "unexpected " \o RuneString(rd.r) \o ", expecting an array index"),
              next |-> "nil"]
        ELSE With(read(emit(scanArrayIndex(rd.l), "tokenArrayIndex")), LAMBDA rd2 :
                IF rd2.r = "]"
                THEN [l |-> emit(rd2.l, "tokenArrayIndexFinish"), next |-> "lexLeftValue"]
                ELSE [l |-> errorU(rd2.l, "unexpected " \o RuneString(rd2.r) \o ", expecting ']'"),
                      next |-> "nil"]))

\* lex.lexString
lexStringU(l, nextLex) ==
    With(read(scanU(l, stringChars)), LAMBDA rd :
        IF rd.r = "'" THEN [l |-> emit(rd.l, "tokenString"), next |-> nextLex]
        ELSE [l |-> errorU(rd.l, "unterminated string, expected ''', got " \o RuneString(rd.r)),
              next |-> "nil"])

\* lex.lexValue of part_004
lexValueU(l, nextLex) ==
    [l |-> emit(scanU(l, rightValueChars), "tokenValue"), next |-> nextLex]

\* lexRightValue
lexRightValueU(l) ==
    With(read(l), LAMBDA rd :
        IF rd.r = end THEN [l |-> emit(rd.l, "tokenEnd"), next |-> "nil"]
        ELSE IF rd.r = "@" THEN [l |-> skipLast(rd.l), next |-> "lexVerbatimString"]
        ELSE IF rd.r = "{" THEN [l |-> emit(rd.l, "tokenValueArrayStart"), next |-> "lexArrayValue"]
        ELSE IF rd.r = "," THEN [l |-> emit(rd.l, "tokenNextKey"), next |-> "lexMapKey"]
        ELSE IF rd.r = "'" THEN lexStringU(rd.l, "lexNextMapKey")
        ELSE IF isCharInSet(rd.r, rightValueChars) THEN lexValueU(unread(rd.l), "lexNextMapKey")
        ELSE [l |-> errorU(rd.l, "unexpected " \o RuneString(rd.r)
                                  \o ", expecting '{', ',', a value or the end"),
              next |-> "nil"])

\* lexVerbatimString
lexVerbatimStringU(l) ==
    [l |-> emit(read(emit(unread(lexValueLoop(read(l), 0).l), "tokenVerbatimString")).l,
                "tokenEnd"),
     next |-> "nil"]

\* lexArrayValue
lexArrayValueU(l) ==
    With(read(l), LAMBDA rd :
        IF rd.r = "}" THEN [l |-> emit(rd.l, "tokenValueArrayFinish"), next |-> "lexNextMapKey"]
        ELSE IF rd.r = "," THEN [l |-> emit(rd.l, "tokenNextValue"), next |-> "lexArrayValue"]
        ELSE IF rd.r = "'" THEN lexStringU(rd.l, "lexNextArrayValue")
        ELSE IF isCharInSet(rd.r, rightValueChars)
        THEN lexValueU(unread(rd.l), "lexNextArrayValue")
        ELSE [l |-> errorU(rd.l, "unexpected " \o RuneString(rd.r)
                                  \o ", expecting '}', ',' or a value"),
              next |-> "nil"])

\* lexNextArrayValue
lexNextArrayValueU(l) ==
    With(read(l), LAMBDA rd :
        IF rd.r = "," THEN [l |-> emit(rd.l, "tokenNextValue"), next |-> "lexArrayValue"]
        ELSE IF rd.r = "}" THEN [l |-> emit(rd.l, "tokenValueArrayFinish"), next |-> "lexNextMapKey"]
        ELSE [l |-> errorU(rd.l, "unexpected " \o RuneString(rd.r) \o ", expecting ',' or '}'"),
              next |-> "nil"])

\* lexNextMapKey
lexNextMapKeyU(l) ==
    With(read(l), LAMBDA rd :
        IF rd.r = end THEN [l |-> emit(rd.l, "tokenEnd"), next |-> "nil"]
        ELSE IF rd.r = "," THEN [l |-> emit(rd.l, "tokenNextKey"), next |-> "lexMapKey"]
        ELSE [l |-> errorU(rd.l, "unexpected " \o RuneString(rd.r) \o ", expecting ',' or the end"),
              next |-> "nil"])

RECURSIVE runFromU(_, _)
\* lex.run of part_004
runFromU(l, state) ==
    IF state = "nil" THEN l
    ELSE With(CASE state = "lexMapKey"          -> lexMapKeyU(l)
                [] state = "lexLeftValue"       -> lexLeftValueU(l)
                [] state = "lexArrayIndex"      -> lexArrayIndexU(l)
                [] state = "lexRightValue"      -> lexRightValueU(l)
                [] state = "lexVerbatimString"  -> lexVerbatimStringU(l)
                [] state = "lexArrayValue"      -> lexArrayValueU(l)
                [] state = "lexNextArrayValue"  -> lexNextArrayValueU(l)
                [] state = "lexNextMapKey"      -> lexNextMapKeyU(l),
              LAMBDA st : runFromU(st.l, st.next))

\* the tokens the channel of the part_004 newLex(str) delivers before it is closed
runU(str) == runFromU(newLex(str), "lexMapKey").tokens

-----------------------------------------------------------------------------
(* The parser of Unmarshal: src/unnamed/part_002.  Its readMap,            *)
(* readLeftValue and readArray are those of src/parser.go with             *)
(* readRightValue of part_002 as the reader of right-hand values.          *)

\* newParser of part_002
newParserU(str) ==
    [toks |-> runU(str), recv |-> 0, rightValueReader |-> "readRightValueU"]

\* a pass that leaves the destination empty when it ends in an error
parseTurnWipes(p, rm) ==
    With(nextToken([p EXCEPT !.recv = rm.recv]), LAMBDA nt :
        CASE nt.tok.TokenType = "tokenEnd" ->
               [done |-> TRUE, r |-> [rm EXCEPT !.recv = nt.p.recv]]
          [] nt.tok.TokenType = "tokenNextKey" ->
               With(readMap(nt.p, newRootBuilder(rm.m)), LAMBDA rn :
                   IF rn.err # "" \/ rn.panic
                   THEN [done |-> TRUE, r |-> [rn EXCEPT !.m = <<>>]]
                   ELSE [done |-> FALSE, r |-> rn])
          [] OTHER ->
               [done |-> TRUE,
                r |-> [rm EXCEPT !.err = tokenToError(nt.tok), !.recv = nt.p.recv,
                                 !.m = <<>>]])

\* parser.parse, from the return of one readMap to the return of the next:
\* readMap has come back with rm and without an error; the token after the
\* clause ends the call (done) or is followed by the readMap of the next
\* clause, whose outcome is r
parseTurn(p, rm) ==
    With(nextToken([p EXCEPT !.recv = rm.recv]), LAMBDA nt :
        CASE nt.tok.TokenType = "tokenEnd" ->
               [done |-> TRUE, r |-> [rm EXCEPT !.recv = nt.p.recv]]
          [] nt.tok.TokenType = "tokenNextKey" ->
               With(readMap(nt.p, newRootBuilder(rm.m)), LAMBDA rn :
                   [done |-> rn.err # "" \/ rn.panic, r |-> rn])
          [] OTHER ->
               [done |-> TRUE,
                r |-> [rm EXCEPT !.err = tokenToError(nt.tok), !.recv = nt.p.recv]])

RECURSIVE parseLoop(_, _)
\* the loop of parser.parse once the first readMap has come back with rm
parseLoop(p, rm) ==
    IF rm.err # "" \/ rm.panic THEN rm
    ELSE With(parseTurn(p, [rm EXCEPT !.oom = FALSE]), LAMBDA t :
            With(IF t.done THEN t.r ELSE parseLoop(p, t.r), LAMBDA r :
                [r EXCEPT !.oom = @ \/ rm.oom]))

\* parser.parse: one clause, then the end or the next clause
parse(p, m) == parseLoop(p, readMap(p, newRootBuilder(m)))

\* Unmarshal
Unmarshal(str, m) == parse(newParserU(str), m)

-----------------------------------------------------------------------------
(* The state machine: a caller that owns one destination map and calls the *)
(* entry points on it.  An expression is either rendered from a clause     *)
(* list (a path and a right-hand text per clause) or taken from a set of   *)
(* raw texts, which holds the malformed ones.                              *)

\* bounds of the model
MaxPathLen == 3
MaxIndex == 2
MaxCalls == 2
MaxClauses == 2
MaxListLen == 3

\* the map keys of rendered paths
Keys == {<<"a">>, <<"b">>}

KeySeg(key) == [t |-> "key", key |-> key, idx |-> 0]
IdxSeg(idx) == [t |-> "idx", key |-> <<>>, idx |-> idx]

Segments == {KeySeg(key) : key \in Keys} \cup {IdxSeg(i) : i \in 0..MaxIndex}

RECURSIVE PathsOfLen(_)
\* the paths of n segments; a path begins with a map key
PathsOfLen(n) ==
    IF n = 1 THEN {<<KeySeg(key)>> : key \in Keys}
    ELSE {Append(p, s) : p \in PathsOfLen(n - 1), s \in Segments}

Paths == UNION {PathsOfLen(n) : n \in 1..MaxPathLen}

\* the paths of the call sequences: a, a.a, a.b, a[0], a[1], a[0].a,
\* a[0].b, a.a[0], a.a[1] and a[1][0]
SeqPaths ==
    { <<KeySeg(<<"a">>)>>,
      <<KeySeg(<<"a">>), KeySeg(<<"a">>)>>,
      <<KeySeg(<<"a">>), KeySeg(<<"b">>)>>,
      <<KeySeg(<<"a">>), IdxSeg(0)>>,
      <<KeySeg(<<"a">>), IdxSeg(1)>>,
      <<KeySeg(<<"a">>), IdxSeg(0), KeySeg(<<"a">>)>>,
      <<KeySeg(<<"a">>), IdxSeg(0), KeySeg(<<"b">>)>>,
      <<KeySeg(<<"a">>), KeySeg(<<"a">>), IdxSeg(0)>>,
      <<KeySeg(<<"a">>), KeySeg(<<"a">>), IdxSeg(1)>>,
      <<KeySeg(<<"a">>), IdxSeg(1), IdxSeg(0)>> }

\* right-hand texts
ValueTexts == {<<>>, <<"v">>, <<"v",",","a","=","w">>, <<"1","0">>, <<"t","r","u","e">>}
SeqValueTexts == {<<"v">>, <<"1","0">>}

RECURSIVE RenderPath(_)
\* the text of a path: key, .key and [index]
RenderPath(p) ==
    IF Len(p) = 1 THEN p[1].key
    ELSE LET s == p[Len(p)]
             front == RenderPath(SubSeq(p, 1, Len(p) - 1))
         IN  IF s.t = "key" THEN front \o <<".">> \o s.key
             ELSE front \o <<"[">> \o ItoaRunes(s.idx) \o <<"]">>

Clause(path, val) == [path |-> path, val |-> val]

\* the text of a clause: path=value
RenderClause(c) == RenderPath(c.path) \o <<"=">> \o c.val

RECURSIVE RenderClauses(_)
\* the text of a clause list: the clauses separated by commas
RenderClauses(cs) ==
    IF Len(cs) = 1 THEN RenderClause(cs[1])
    ELSE RenderClauses(SubSeq(cs, 1, Len(cs) - 1)) \o <<",">> \o RenderClause(cs[Len(cs)])

\* the characters that follow a backslash in the keys of EscapeInputs
EscapedChars == {".", "[", "]", "=", "\\", "-", " ", "%"}

\* a\Xb=v for each of these characters X, and a key that ends in a backslash
EscapeInputs ==
    {<<"a", "\\", x, "b", "=", "v">> : x \in EscapedChars} \cup {<<"a", "\\">>}

\* keys with a closing bracket and with white space in them
KeyInputs ==
    { <<"a", "]", "b", "=", "v">>,
      <<"a", " ", "b", "=", "v">>,
      <<" ", "=", "v">>,
      <<"a", ".", "b", "]", "=", "v">> }

\* the expressions that are a path and nothing after it
PathOnlyInputs == {RenderPath(p) : p \in Paths}

\* expressions with the rune U+0000 in them: in the value, as the whole
\* value, in the key and in the index
NulInputs ==
    { <<"a", "=", "v", "U+0000", "w">>,
      <<"a", "=", "U+0000">>,
      <<"a", "U+0000", "b", "=", "v">>,
      <<"a", "[", "1", "U+0000", "]", "=", "v">> }

\* expressions with an index of runes that unicode.IsNumber takes and that
\* are not the digits 0-9
NumberInputs ==
    { <<"a", "[", "U+00B2", "]", "=", "v">>,
      <<"a", "[", "1", "U+0663", "]", "=", "v">>,
      <<"b", "[", "U+0663", "]", ".", "a", "=", "w">> }

\* indices of a thousand million and more: the least of them, the largest
\* a slice can have, and the one after it
FarInputs ==
    { <<"a", "[", "1","0","0","0","0","0","0","0","0","0", "]", "=", "v">>,
      <<"b", "[", "1","0","0","0","0","0","0","0","0","0", "]", ".", "a", "=", "v">>,
      <<"a", "[", "1","7","5","9","2","1","8","6","0","4","4","4","1","5", "]", "=", "v">>,
      <<"a", "[", "1","7","5","9","2","1","8","6","0","4","4","4","1","6", "]", "=", "v">> }

\* clauses that come back to a slice of a thousand million elements
FarInputsU ==
    { <<"a", "[", "1","0","0","0","0","0","0","0","0","0", "]", "=", "v", ",",
        "a", "[", "0", "]", "=", "w">>,
      <<"a", "[", "1","0","0","0","0","0","0","0","0","0", "]", "=", "v", ",",
        "a", "[", "1","0","0","0","0","0","0","0","0","1", "]", ".", "b", "=", "w">>,
      <<"a", "[", "1","0","0","0","0","0","0","0","0","0", "]", ".", "b", "=", "v", ",",
        "a", "[", "1","0","0","0","0","0","0","0","0","0", "]", ".", "a", "=", "n", "u", "l", "l">>,
      <<"a", "[", "1","0","0","0","0","0","0","0","0","0", "]", "=", "v", ",",
        "a", "[", "1","0","0","0","0","0","0","0","0","0", "]", "=", "n", "u", "l", "l">> }

\* raw expressions: malformed texts, the largest index and the one beyond it
RawInputs ==
    EscapeInputs \cup KeyInputs \cup PathOnlyInputs \cup NulInputs \cup NumberInputs \cup
    FarInputs \cup
    { <<>>,
      <<"a">>,
      <<"a", "[", "0", "]">>,
      <<"a", "[">>,
      <<"a", "[", "0">>,
      <<".">>,
      <<"=">>,
      <<"[", "0", "]", "=", "v">>,
      <<"a", "=", "v", ",", "a", "=", "w">>,
      <<"a", "=", "v", ",", "b">>,
      <<"a", "[",  "9","2","2","3","3","7","2","0","3","6","8","5","4","7","7","5","8","0","7", "]", "=", "v">>,
      <<"a", "[",  "9","2","2","3","3","7","2","0","3","6","8","5","4","7","7","5","8","0","8", "]", "=", "v">>,
      <<"b", "[", "9","9","9","9","9","9","9","9","9","9","9","9","9","9","9","9","9","9","9","9", "]", "=", "v">>,
      <<"a", "[", "9","9","9","9","9","9","9","9","9","9","9","9","9","9","9","9","9","9","9","9">> }

\* the clauses of rendered multi-clause expressions
UClauses ==
    { Clause(<<KeySeg(<<"a">>)>>, <<"v">>),
      Clause(<<KeySeg(<<"a">>)>>, <<"w">>),
      Clause(<<KeySeg(<<"b">>)>>, <<"n","u","l","l">>),
      Clause(<<KeySeg(<<"a">>), KeySeg(<<"b">>)>>, <<"1","0">>),
      Clause(<<KeySeg(<<"a">>), IdxSeg(1)>>, <<"v">>),
      Clause(<<KeySeg(<<"b">>), IdxSeg(0), KeySeg(<<"a">>)>>, <<"w">>) }

RECURSIVE ClauseLists(_)
ClauseLists(n) ==
    IF n = 1 THEN {<<c>> : c \in UClauses}
    ELSE {Append(cs, c) : cs \in ClauseLists(n - 1), c \in UClauses}

\* what follows the @ of a verbatim value: clause separators, brackets,
\* quotes, backslashes and texts that coerce when they stand bare
VerbatimTexts ==
    { <<>>,
      <<"v", ",", "b", "=", "w">>,
      <<"{", "v", ",", "w", "}">>,
      <<"'", "v", "'">>,
      <<"v", "\\", ",", "w">>,
      <<"\\">>,
      <<"@">>,
      <<"t", "r", "u", "e">>,
      <<"1", "0">>,
      <<"n", "u", "l", "l">>,
      <<"v", "U+0000", "w">>,
      <<"U+0000">> }

\* the expressions a=@R
VerbatimInputs == {<<"a", "=", "@">> \o r : r \in VerbatimTexts}

\* what stands between the quotes of a quoted value: reserved characters,
\* texts that coerce when they stand bare, and escaped quotes at the start,
\* in the middle and at the end
QuotedContents ==
    { <<>>,
      <<"v", ",", "w">>,
      <<"{", "v", "}">>,
      <<"1", "0">>,
      <<"t", "r", "u", "e">>,
      <<"v", "\\", "'", "w">>,
      <<"\\", "'", "v">>,
      <<"v", "\\", "'">>,
      <<"\\", "'">> }

\* the expressions a='C'
QuotedInputs == {<<"a", "=", "'">> \o c \o <<"'">> : c \in QuotedContents}

\* two clauses, the first with U+0000 in its right-hand text: a=vU+0000,b=w
\* and a=U+0000,b[1]=w
CutInputs ==
    { <<"a", "=", "v", "U+0000", ",", "b", "=", "w">>,
      <<"a", "=", "U+0000", ",", "b", "[", "1", "]", "=", "w">> }

\* raw expressions of Unmarshal: malformed clauses after well-formed ones,
\* bracket lists, quoted and verbatim values
RawInputsU ==
    RawInputs \cup VerbatimInputs \cup QuotedInputs \cup CutInputs \cup FarInputsU \cup
    { <<"a", "=", "v", ",", "b", "=", "}">>,
      <<"a", ".", "b", "=", "v", ",", "a", "[", "0", "]">>,
      <<"a", "=", "v", ",", "b", "=", "w", ",">>,
      <<"a", "=", "{", "v", "}", "{">>,
      <<"a", "=", "v", "{">>,
      <<"a", "[", "1", "]", "=", "'", "v", "'", "x">>,
      <<"a", "=", "{", "v", ",", ",", "w", "}">>,
      <<"a", "=", "@", "v", ",", "b", "=", "w">>,
      <<"a", "=", "'", "v", ",", "w", "'">>,
      <<"b", "=", "}">>,
      <<"a", "=">>,
      <<"a", "=", ",", "b", "=", "w">>,
      <<"b", "[", "0", "]", "=">>,
      <<"a", ".", "b", "=", ",", "b", "=", "w">>,
      <<"a", "=", "{", "}">> }

\* the elements of bracket lists: the empty one among them
ListElements == {<<>>, <<"v">>, <<"1", "0">>}

\* the bracket lists: up to MaxListLen elements
Lists == UNION {[1..n -> ListElements] : n \in 1..MaxListLen}

RECURSIVE RenderElements(_)
\* the elements separated by commas
RenderElements(es) ==
    IF Len(es) = 1 THEN es[1]
    ELSE RenderElements(SubSeq(es, 1, Len(es) - 1)) \o <<",">> \o es[Len(es)]

\* the expression a={e1,...,en}
RenderList(es) == <<"a", "=", "{">> \o RenderElements(es) \o <<"}">>

\* what follows the well-formed clauses of a broken expression: a clause
\* that fails, alone or with a well-formed clause after it
BrokenTails ==
    { <<"b">>,
      <<"a", "[", "0", "]">>,
      <<"b", "=", "}">>,
      <<>>,
      <<"b", "[", "x", "]", "=", "v", ",", "b", "=", "w">>,
      <<".", "=", "v", ",", "a", "=", "w">> }

\* the destinations before the first call
PriorDests ==
    { <<>>,
      [a |-> String(<<"s">>)],
      [a |-> Map([a |-> String(<<"x">>), b |-> Int64(7)])],
      [a |-> Array(<<String(<<"x">>), String(<<"y">>), String(<<"z">>)>>), b |-> Null],
      [a |-> Array(<<Map([a |-> String(<<"x">>), b |-> Null]),
                     Array(<<String(<<"y">>), Float64(<<"2",".","5">>)>>)>>)],
      [b |-> Map([b |-> Map([a |-> Bool(TRUE)])])],
      [a |-> Map([b |-> Array(<<String(<<"x">>), String(<<"y">>)>>)]), b |-> String(<<"s">>)],
      [b |-> Array(<<Array(<<Null>>), Map([a |-> Int64(7)])>>)] }

NoCall == [api |-> "", clauses |-> <<>>, status |-> "init"]

\* no tokenizer is observed from outside: the entry points make their own
\* and let go of it before they return
NoLexer == [toks |-> <<>>, sent |-> 0, closed |-> FALSE, pc |-> "none"]
NoCaller == [pc |-> "none", got |-> 0, late |-> 0]

\* how a call ended: the process died of an allocation, or the call
\* panicked, or it returned an error or nil
Ended(r, alive) ==
    IF ~alive THEN "fatal"
    ELSE IF r.panic THEN "panic"
    ELSE IF r.err # "" THEN "error"
    ELSE "ok"

\* the courses the machine can take on outcome r: the process lives, or,
\* when r has asked for more memory than the model is sure of, dies
Courses(r) == IF r.oom THEN BOOLEAN ELSE {TRUE}

\* the caller has called entry point a with text str, rendered from clause
\* list cs, and the call came back with outcome r, or the process died in
\* it: a process that dies of an allocation has not written to the map yet
Call(a, str, cs, r) ==
    /\ status # "running"
    /\ \E alive \in Courses(r) :
          /\ dest' = IF alive THEN r.m ELSE dest
          /\ status' = Ended(r, alive)
          /\ err' = IF alive THEN r.err ELSE ""
    /\ pre' = dest
    /\ api' = a
    /\ input' = str
    /\ clauses' = cs
    /\ prev' = [api |-> api, clauses |-> clauses, status |-> status]
    /\ calls' = calls + 1
    /\ UNCHANGED <<lexer, caller>>

\* parser.parse has got t.r from a readMap, or from the token after it when
\* the call is done: the map holds what the clause wrote, and either the
\* call is over or parse is about to receive the token after the clause,
\* with caller.got tokens received so far
Turn(t) ==
    \E alive \in Courses(t.r) :
        /\ dest' = IF alive THEN t.r.m ELSE dest
        /\ IF alive /\ ~t.done
           THEN /\ status' = "running"
                /\ err' = ""
                /\ calls' = calls
                /\ caller' = [pc |-> "parse", got |-> t.r.recv, late |-> 0]
           ELSE /\ status' = Ended(t.r, alive)
                /\ err' = IF alive THEN t.r.err ELSE ""
                /\ calls' = calls + 1
                /\ caller' = NoCaller

\* the caller calls MergeValue, MergeString or Unmarshal on its map
DoMergeValue(str, cs) == Call("MergeValue", str, cs, MergeValue(dest, str))
DoMergeString(str, cs) == Call("MergeString", str, cs, MergeString(dest, str))

\* the caller calls Unmarshal, which runs up to the return of the first
\* readMap of parser.parse
DoUnmarshal(str, cs) ==
    /\ status # "running"
    /\ Turn(With(readMap(newParserU(str), newRootBuilder(dest)), LAMBDA rm :
                 [done |-> rm.err # "" \/ rm.panic, r |-> rm]))
    /\ pre' = dest
    /\ api' = "Unmarshal"
    /\ input' = str
    /\ clauses' = cs
    /\ prev' = [api |-> api, clauses |-> clauses, status |-> status]
    /\ UNCHANGED lexer

\* Unmarshal goes on: parser.parse receives the token after the clause and
\* returns, or calls readMap for the next clause
UnmarshalGoesOn ==
    /\ status = "running"
    /\ Turn(parseTurn(newParserU(input),
                      [err |-> "", panic |-> FALSE, oom |-> FALSE,
                       m |-> dest, recv |-> caller.got]))
    /\ UNCHANGED <<pre, api, input, clauses, prev, lexer>>

(* One call on any prior destination *)

Init ==
    /\ dest \in PriorDests
    /\ pre = dest
    /\ api = ""
    /\ input = <<>>
    /\ clauses = <<>>
    /\ status = "init"
    /\ err = ""
    /\ prev = NoCall
    /\ calls = 0
    /\ lexer = NoLexer
    /\ caller = NoCaller

CallMergeValue ==
    /\ calls = 0
    /\ \E p \in Paths, v \in ValueTexts :
          DoMergeValue(RenderClause(Clause(p, v)), <<Clause(p, v)>>)

CallMergeString ==
    /\ calls = 0
    /\ \E p \in Paths, v \in ValueTexts :
          DoMergeString(RenderClause(Clause(p, v)), <<Clause(p, v)>>)

CallMergeValueRaw ==
    /\ calls = 0
    /\ \E s \in RawInputs : DoMergeValue(s, <<>>)

CallMergeStringRaw ==
    /\ calls = 0
    /\ \E s \in RawInputs : DoMergeString(s, <<>>)

CallUnmarshal ==
    /\ calls = 0
    /\ \E n \in 1..MaxClauses : \E cs \in ClauseLists(n) :
          DoUnmarshal(RenderClauses(cs), cs)

CallUnmarshalRaw ==
    /\ calls = 0
    /\ \E s \in RawInputsU : DoUnmarshal(s, <<>>)

\* one clause whose right-hand value is a bracket list
CallUnmarshalList ==
    /\ calls = 0
    /\ \E es \in Lists : DoUnmarshal(RenderList(es), <<>>)

\* well-formed clauses followed by a broken tail: every tail after one
\* clause, and after more clauses the tail that has a clause behind the
\* failing one; clauses records the well-formed ones
CallUnmarshalBroken ==
    /\ calls = 0
    /\ \E n \in 1..MaxClauses : \E cs \in ClauseLists(n) : \E tail \in BrokenTails :
          /\ n = 1 \/ tail = <<"b", "[", "x", "]", "=", "v", ",", "b", "=", "w">>
          /\ DoUnmarshal(RenderClauses(cs) \o <<",">> \o tail, cs)

Next ==
    \/ CallMergeValue
    \/ CallMergeString
    \/ CallMergeValueRaw
    \/ CallMergeStringRaw
    \/ CallUnmarshal
    \/ CallUnmarshalRaw
    \/ CallUnmarshalList
    \/ CallUnmarshalBroken
    \/ UnmarshalGoesOn

Spec == Init /\ [][Next]_vars

(* Successive calls on a destination that starts empty; a panic ends the   *)
(* program.                                                                *)

InitSeq ==
    /\ dest = <<>>
    /\ pre = <<>>
    /\ api = ""
    /\ input = <<>>
    /\ clauses = <<>>
    /\ status = "init"
    /\ err = ""
    /\ prev = NoCall
    /\ calls = 0
    /\ lexer = NoLexer
    /\ caller = NoCaller

SeqMergeValue ==
    /\ calls < MaxCalls
    /\ status # "panic"
    /\ \E p \in SeqPaths, v \in SeqValueTexts :
          DoMergeValue(RenderClause(Clause(p, v)), <<Clause(p, v)>>)

SeqMergeString ==
    /\ calls < MaxCalls
    /\ status # "panic"
    /\ \E p \in {q \in SeqPaths : Len(q) <= 2} :
          DoMergeString(RenderClause(Clause(p, <<"1","0">>)), <<Clause(p, <<"1","0">>)>>)

SeqMergeRaw ==
    /\ calls < MaxCalls
    /\ status # "panic"
    /\ \E s \in {<<"a">>, <<"a", "[", "0">>} : DoMergeValue(s, <<>>)

NextSeq ==
    \/ SeqMergeValue
    \/ SeqMergeString
    \/ SeqMergeRaw

SpecSeq == InitSeq /\ [][NextSeq]_vars

(* Coercion: one MergeValue / MergeString of a=text on an empty map, the   *)
(* text drawn from the short texts over an alphabet and from a word list.  *)

MaxTextLen == 3

CoerceAlphabet == {"t", "T", "1", "0", "-", "e", "n", "."}

CoerceWords ==
    { <<"t","r","u","e">>, <<"f","a","l","s","e">>,
      <<"T","r","u","e">>, <<"T","R","U","E">>,
      <<"F","a","l","s","e">>, <<"F","A","L","S","E">>,
      <<"f">>, <<"F">>, <<"y","e","s">>, <<"n","o">>,
      <<"n","u","l","l">>, <<"N","u","l","l">>, <<"N","U","L","L">>, <<"n","i","l">>,
      <<"n","U","L","L">>, <<"N","U","l","l">>, <<"n","u","l","L">>, <<"n","u","l","l"," ">>,
      <<"+","1","0">>, <<"0","0","7">>, <<"-","0","1","2">>, <<"1","2","3","4","5","6","7","8","9">>,
      <<"1","0","0","0">>, <<"-","1","0","0","0">>, <<"1","0",".","0","1">>,
      <<"9","2","2","3","3","7","2","0","3","6","8","5","4","7","7","5","8","0","8">>,
      <<"1","e","9","9","9">>, <<"1",".","8","e","3","0","8">>, <<"1",".","7","e","3","0","8">>,
      <<"0","x","1","p","-","2">>, <<"0","x","1","0">>,
      <<"v">>, <<"t","r","u","e"," ">> }

CoerceTexts == CoerceWords \cup UNION {[1..n -> CoerceAlphabet] : n \in 0..MaxTextLen}

CoerceClause(v) == Clause(<<KeySeg(<<"a">>)>>, v)

InitCoerce == InitSeq

CoerceMergeValue ==
    /\ calls = 0
    /\ \E v \in CoerceTexts :
          DoMergeValue(RenderClause(CoerceClause(v)), <<CoerceClause(v)>>)

CoerceMergeString ==
    /\ calls = 0
    /\ \E v \in CoerceTexts :
          DoMergeString(RenderClause(CoerceClause(v)), <<CoerceClause(v)>>)

NextCoerce == CoerceMergeValue \/ CoerceMergeString

SpecCoerce == InitCoerce /\ [][NextCoerce]_vars

-----------------------------------------------------------------------------
(* The tokenizer as a goroutine.  newLex starts lex.run in a goroutine of  *)
(* its own; emit and error send each token on the unbuffered channel       *)
(* l.tokens, where a send completes only together with a receive, and run  *)
(* closes the channel as its last step.  The other goroutine receives      *)
(* tokens with nextToken, then calls drain, and after drain has returned   *)
(* ranges over the channel once more, as Test_Lex_Drain does.              *)
(*   lexer.toks   the tokens the state functions send, in order            *)
(*   lexer.sent   how many of them have been received                      *)
(*   lexer.closed whether close(l.tokens) has happened                     *)
(*   lexer.pc     "run" while lex.run is at work, "done" once it is over   *)
(*   caller.pc    "read", "drain" (inside drain), "drained", "after"       *)
(*   caller.got   the tokens received by nextToken                         *)
(*   caller.late  the tokens received after drain had returned             *)

\* the variables of the entry-point calls
callvars == <<dest, pre, api, input, clauses, status, err, prev, calls>>

\* the expressions tokenized
\* expressions with runes of two and of three bytes in the key and in the
\* value, next to an escape and to an index
WideInputs ==
    { <<"U+00E9", "\\", ".", "U+20AC", "[", "1", "]", "=", "U+00E9", "v">>,
      <<"U+20AC", ".", "a", "\\", "\\", "U+00E9", "=", "U+20AC">>,
      <<"a", "U+00E9", "[", "U+00E9", "]", "=", "v">> }

LexInputs ==
    RawInputs \cup WideInputs
        \cup {RenderClause(Clause(p, v)) : p \in SeqPaths, v \in SeqValueTexts}

\* newLex(str): the struct lex and go l.run()
startLex(str) == [toks |-> run(str), sent |-> 0, closed |-> FALSE, pc |-> "run"]

InitLex ==
    /\ dest = <<>>
    /\ pre = <<>>
    /\ api = ""
    /\ input \in LexInputs
    /\ clauses = <<>>
    /\ status = "init"
    /\ err = ""
    /\ prev = NoCall
    /\ calls = 0
    /\ lexer = startLex(input)
    /\ caller = [pc |-> "read", got |-> 0, late |-> 0]

\* lex.run is blocked in a send l.tokens <- token
Sending == lexer.pc = "run" /\ lexer.sent < Len(lexer.toks)

\* lex.nextToken: <-l.tokens takes the token lex.run is sending
LexNextToken ==
    /\ caller.pc = "read"
    /\ Sending
    /\ lexer' = [lexer EXCEPT !.sent = @ + 1]
    /\ caller' = [caller EXCEPT !.got = @ + 1]
    /\ UNCHANGED callvars

\* the caller calls lex.drain
LexCallDrain ==
    /\ caller.pc = "read"
    /\ caller' = [caller EXCEPT !.pc = "drain"]
    /\ UNCHANGED <<lexer, callvars>>

\* lex.drain, one turn of for range l.tokens: a token is received and dropped
LexDrainReceive ==
    /\ caller.pc = "drain"
    /\ Sending
    /\ lexer' = [lexer EXCEPT !.sent = @ + 1]
    /\ UNCHANGED <<caller, callvars>>

\* a lex.run that ends without closing the channel
LexCloseForgotten ==
    /\ lexer.pc = "run"
    /\ lexer.sent = Len(lexer.toks)
    /\ lexer' = [lexer EXCEPT !.pc = "done"]
    /\ UNCHANGED <<caller, callvars>>

\* lex.run after the last state function returned nil: close(l.tokens), and
\* the goroutine is over; no goroutine runs in a process that has died
LexClose ==
    /\ status # "fatal"
    /\ lexer.pc = "run"
    /\ lexer.sent = Len(lexer.toks)
    /\ lexer' = [lexer EXCEPT !.closed = TRUE, !.pc = "done"]
    /\ UNCHANGED <<caller, callvars>>

\* lex.drain: the range loop ends on the closed channel and drain returns
LexDrainReturn ==
    /\ caller.pc = "drain"
    /\ lexer.closed
    /\ caller' = [caller EXCEPT !.pc = "drained"]
    /\ UNCHANGED <<lexer, callvars>>

\* for range lex.tokens after drain: no turn on a closed channel, and a
\* token if lex.run is still sending one
LexRangeAfterDrain ==
    /\ caller.pc = "drained"
    /\ IF lexer.closed
       THEN /\ caller' = [caller EXCEPT !.pc = "after"]
            /\ UNCHANGED lexer
       ELSE /\ Sending
            /\ caller' = [caller EXCEPT !.pc = "after", !.late = @ + 1]
            /\ lexer' = [lexer EXCEPT !.sent = @ + 1]
    /\ UNCHANGED callvars

NextLex ==
    \/ LexNextToken
    \/ LexCallDrain
    \/ LexDrainReceive
    \/ LexClose
    \/ LexDrainReturn
    \/ LexRangeAfterDrain

SpecLex == InitLex /\ [][NextLex]_vars

\* the Go scheduler runs every goroutine that can take a step: lex.run gets
\* to close the channel, and the loop of drain gets to receive and to end
SpecLexFair ==
    /\ InitLex /\ [][NextLex]_vars
    /\ WF_vars(LexDrainReceive)
    /\ WF_vars(LexClose)
    /\ WF_vars(LexDrainReturn)

-----------------------------------------------------------------------------
(* A merge call next to the goroutine of its tokenizer.  MergeValue and    *)
(* MergeString make the tokenizer with newLex, parser.append receives      *)
(* tokens through nextToken as the read functions ask for them, calls      *)
(* drain when a read function comes back with an error, and returns.       *)
(*   caller.pc    "parse" (inside readMap), "drain", "drained",            *)
(*                "returned", "panicked", "fatal"                          *)
(*   caller.got   the tokens the read functions have received              *)

\* what the call in progress comes to: the read functions receive recv tokens
Outcome == IF api = "MergeString" THEN MergeString(dest, input) ELSE MergeValue(dest, input)

\* the destinations of the calls observed with their tokenizer
MergeDests == {<<>>, [a |-> Array(<<String(<<"x">>), String(<<"y">>), String(<<"z">>)>>), b |-> Null]}

\* MergeValue or MergeString has been called: newLex has started lex.run
InitMerge ==
    /\ dest \in MergeDests
    /\ pre = dest
    /\ api \in {"MergeValue", "MergeString"}
    /\ input \in LexInputs
    /\ clauses = <<>>
    /\ status = "running"
    /\ err = ""
    /\ prev = NoCall
    /\ calls = 0
    /\ lexer = startLex(input)
    /\ caller = [pc |-> "parse", got |-> 0, late |-> 0]

\* parser.nextToken inside a read function
MergeNextToken ==
    /\ caller.pc = "parse"
    /\ caller.got < Outcome.recv
    /\ Sending
    /\ lexer' = [lexer EXCEPT !.sent = @ + 1]
    /\ caller' = [caller EXCEPT !.got = @ + 1]
    /\ UNCHANGED callvars

\* parser.append: readMap came back with an error, p.lex.drain() is called
MergeCallsDrain ==
    /\ caller.pc = "parse"
    /\ caller.got = Outcome.recv
    /\ Outcome.err # "" /\ ~Outcome.panic
    /\ caller' = [caller EXCEPT !.pc = "drain"]
    /\ UNCHANGED <<lexer, callvars>>

\* the call is over with outcome r: the caller has its map and the error,
\* or the process died of the allocation in arrayBuilder.set before the
\* map was written, and lex.run with it
MergeOver(r, pc) ==
    /\ \E alive \in Courses(r) :
          /\ dest' = IF alive THEN r.m ELSE dest
          /\ status' = Ended(r, alive)
          /\ err' = IF alive THEN r.err ELSE ""
          /\ caller' = [caller EXCEPT !.pc = IF alive THEN pc ELSE "fatal"]
    /\ calls' = calls + 1
    /\ UNCHANGED <<pre, api, input, clauses, prev, lexer>>

\* parser.append returns: nil right after readMap, the error after drain
MergeReturns ==
    /\ \/ caller.pc = "parse" /\ caller.got = Outcome.recv /\ Outcome.err = "" /\ ~Outcome.panic
       \/ caller.pc = "drained"
    /\ MergeOver(Outcome, "returned")

\* arrayBuilder.set panics inside readMap: the call does not return
MergePanics ==
    /\ caller.pc = "parse"
    /\ caller.got = Outcome.recv
    /\ Outcome.panic
    /\ MergeOver(Outcome, "panicked")

NextMerge ==
    \/ MergeNextToken
    \/ MergeCallsDrain
    \/ LexDrainReceive
    \/ LexClose
    \/ LexDrainReturn
    \/ MergeReturns
    \/ MergePanics

SpecMerge == InitMerge /\ [][NextMerge]_vars

-----------------------------------------------------------------------------
(* Reading a tree: what the claims see of a destination.                   *)

NotFound == [found |-> FALSE, val |-> Null]

RECURSIVE Follow(_, _)
\* the value reached from v by following path p segment by segment: a key
\* leads on from a Map that holds it, an index from an Array that long
Follow(v, p) ==
    IF p = <<>> THEN [found |-> TRUE, val |-> v]
    ELSE IF p[1].t = "key"
    THEN IF v.k = "map" /\ Str(p[1].key) \in DOMAIN v.m
         THEN Follow(v.m[Str(p[1].key)], Tail(p)) ELSE NotFound
    ELSE IF v.k = "arr" /\ p[1].idx < Len(v.a)
         THEN Follow(v.a[p[1].idx + 1], Tail(p)) ELSE NotFound

Prefix(p, j) == SubSeq(p, 1, j)

\* the container kind segment s addresses
Matches(v, s) == (s.t = "key" /\ v.k = "map") \/ (s.t = "idx" /\ v.k = "arr")

\* new holds every entry of old apart from the one segment s addresses
EntriesKept(old, new, s) ==
    IF old.k = "map"
    THEN /\ new.k = "map"
         /\ \A x \in DOMAIN old.m \ {Str(s.key)} : x \in DOMAIN new.m /\ new.m[x] = old.m[x]
    ELSE /\ new.k = "arr"
         /\ Len(new.a) >= Len(old.a)
         /\ \A i \in 1..Len(old.a) : i # s.idx + 1 => new.a[i] = old.a[i]

\* new is old with the entry of s added: nothing else came in, and an array
\* grew by Null slots only, up to the index of s
NothingElseAdded(old, new, s) ==
    IF old.k = "map"
    THEN DOMAIN new.m = DOMAIN old.m \cup {Str(s.key)}
    ELSE /\ Len(new.a) = (IF s.idx + 1 > Len(old.a) THEN s.idx + 1 ELSE Len(old.a))
         /\ \A i \in (Len(old.a) + 1)..s.idx : new.a[i] = Null

\* new is a container of the kind s addresses holding the entry of s only
FreshFor(new, s) ==
    IF s.t = "key"
    THEN new.k = "map" /\ DOMAIN new.m = {Str(s.key)}
    ELSE /\ new.k = "arr"
         /\ Len(new.a) = s.idx + 1
         /\ \A i \in 1..s.idx : new.a[i] = Null

\* the value a successful call stores for right-hand text v
Expected(a, v) == IF a = "MergeString" THEN String(v) ELSE tryParse(v)

\* the last call succeeded on an expression of one rendered clause
OneClauseOk == status = "ok" /\ Len(clauses) = 1 /\ input = RenderClause(clauses[1])
ThePath == clauses[1].path
TheText == clauses[1].val

-----------------------------------------------------------------------------
(* Claims *)

\* C1: after a successful MergeValue / MergeString of P=V, following P from
\* the root of the caller's map reaches exactly the coerced value of V (the
\* raw text for MergeString), whatever the destination held before.
C1_TerminalWriteReachesRoot ==
    (OneClauseOk /\ api \in {"MergeValue", "MergeString"}) =>
        Follow(Map(dest), ThePath) = [found |-> TRUE, val |-> Expected(api, TheText)]

\* C1 witness: a successful MergeValue of a three-segment path whose first
\* slot held a container of the other kind, which had to be replaced
C1_Witness ==
    /\ OneClauseOk /\ api = "MergeValue" /\ Len(ThePath) = 3
    /\ Follow(Map(pre), Prefix(ThePath, 1)).found
    /\ Follow(Map(pre), Prefix(ThePath, 1)).val.k \in {"map", "arr"}
    /\ ~Matches(Follow(Map(pre), Prefix(ThePath, 1)).val, ThePath[2])
    /\ Follow(Map(dest), ThePath).val = tryParse(TheText)

\* C2: a slot on the way is reused, with all its entries, exactly when it
\* holds a Map and the next segment is a key or an Array and the next
\* segment is an index; in every other case it ends up holding a fresh
\* container of the required kind with only what this path writes.
C2_ReuseOrReplace ==
    OneClauseOk =>
        \A j \in 1..(Len(ThePath) - 1) :
            LET old == Follow(Map(pre), Prefix(ThePath, j))
                new == Follow(Map(dest), Prefix(ThePath, j))
                s   == ThePath[j + 1]
            IN  /\ new.found
                /\ IF old.found /\ Matches(old.val, s)
                   THEN EntriesKept(old.val, new.val, s) /\ NothingElseAdded(old.val, new.val, s)
                   ELSE FreshFor(new.val, s)

\* C2 witness: one call that reuses a non-empty Array of the destination
\* and, below it, replaces a Map by an Array
C2_Witness ==
    /\ OneClauseOk /\ Len(ThePath) = 3
    /\ LET old1 == Follow(Map(pre), Prefix(ThePath, 1))
           old2 == Follow(Map(pre), Prefix(ThePath, 2))
       IN  /\ old1.found /\ old1.val.k = "arr" /\ Len(old1.val.a) = 2
           /\ ThePath[2].t = "idx"
           /\ old2.found /\ old2.val.k = "map" /\ ThePath[3].t = "idx"
           /\ Follow(Map(dest), Prefix(ThePath, 2)).val.k = "arr"

\* C3: over any sequence of successful calls, every container the written
\* path leads through before a call still holds, after the call, all the
\* entries it had, apart from the one entry the path addresses.
C3_ContainersPreserved ==
    OneClauseOk =>
        \A j \in 0..(Len(ThePath) - 1) :
            LET old == Follow(Map(pre), Prefix(ThePath, j))
                new == Follow(Map(dest), Prefix(ThePath, j))
            IN  (old.found /\ Matches(old.val, ThePath[j + 1])) =>
                    (new.found /\ EntriesKept(old.val, new.val, ThePath[j + 1]))

\* C3 witness: the second call of a sequence leads through a Map that held
\* another key and through an Array that held another element
C3_Witness ==
    /\ OneClauseOk /\ calls = 2 /\ prev.status = "ok" /\ Len(ThePath) = 3
    /\ ThePath[2].t = "key" /\ ThePath[3].t = "idx"
    /\ LET old1 == Follow(Map(pre), Prefix(ThePath, 1))
           old2 == Follow(Map(pre), Prefix(ThePath, 2))
       IN  /\ old1.found /\ old1.val.k = "map"
           /\ old2.found /\ old2.val.k = "arr"
           /\ Len(old2.val.a) = 2 /\ ThePath[3].idx = 0
           /\ old2.val.a[2] # Null

\* C4: a terminal write to a slot that already holds a value replaces it,
\* whatever the two types; after two successive calls that write the same
\* path the slot holds the value of the second call.
C4_LastWriteWins ==
    OneClauseOk =>
        /\ Follow(Map(pre), ThePath).found =>
               Follow(Map(dest), ThePath).val = Expected(api, TheText)
        /\ (prev.status = "ok" /\ Len(prev.clauses) = 1 /\ prev.clauses[1].path = ThePath) =>
               Follow(Map(dest), ThePath) = [found |-> TRUE, val |-> Expected(api, TheText)]

\* C4 witness: the second call writes the path of the first with a value of
\* another type
C4_Witness ==
    /\ OneClauseOk /\ prev.status = "ok" /\ Len(prev.clauses) = 1
    /\ prev.clauses[1].path = ThePath
    /\ Follow(Map(pre), ThePath).val = Expected(prev.api, prev.clauses[1].val)
    /\ Follow(Map(pre), ThePath).val.k # Expected(api, TheText).k
    /\ Follow(Map(dest), ThePath).val = Expected(api, TheText)

\* C4 second witness: the slot written held a container
C4_WitnessContainer ==
    /\ OneClauseOk
    /\ Follow(Map(pre), ThePath).found
    /\ Follow(Map(pre), ThePath).val.k \in {"map", "arr"}
    /\ Follow(Map(dest), ThePath).val.k \in {"str", "int"}

\* C5: two separate calls that write two different keys of the same Map,
\* the Map being under a key or in an array slot, leave one Map holding both
\* keys with the values written.
C5_SiblingKeysKept ==
    (/\ OneClauseOk /\ prev.status = "ok" /\ Len(prev.clauses) = 1
     /\ Len(ThePath) >= 2 /\ Len(prev.clauses[1].path) = Len(ThePath)
     /\ Prefix(prev.clauses[1].path, Len(ThePath) - 1) = Prefix(ThePath, Len(ThePath) - 1)
     /\ ThePath[Len(ThePath)].t = "key" /\ prev.clauses[1].path[Len(ThePath)].t = "key"
     /\ prev.clauses[1].path # ThePath)
    =>
        /\ Follow(Map(dest), Prefix(ThePath, Len(ThePath) - 1)).val.k = "map"
        /\ Follow(Map(dest), prev.clauses[1].path)
               = [found |-> TRUE, val |-> Expected(prev.api, prev.clauses[1].val)]
        /\ Follow(Map(dest), ThePath) = [found |-> TRUE, val |-> Expected(api, TheText)]

\* C5 witness: the two calls wrote two keys of a Map stored in an array slot
C5_Witness ==
    /\ OneClauseOk /\ prev.status = "ok" /\ Len(prev.clauses) = 1
    /\ Len(ThePath) = 3 /\ Len(prev.clauses[1].path) = 3
    /\ Prefix(prev.clauses[1].path, 2) = Prefix(ThePath, 2)
    /\ ThePath[2].t = "idx" /\ ThePath[3].t = "key" /\ prev.clauses[1].path[3].t = "key"
    /\ prev.clauses[1].path # ThePath
    /\ DOMAIN Follow(Map(dest), Prefix(ThePath, 2)).val.m = {"a", "b"}

\* C7: writing index i into an existing array of length n leaves every
\* other element unchanged; for i >= n the array grows to exactly i+1
\* elements, the new slots n..i-1 being Null, and for i < n it keeps length n.
C7_ArrayWriteFrame ==
    (OneClauseOk /\ ThePath[Len(ThePath)].t = "idx") =>
        LET old == Follow(Map(pre), Prefix(ThePath, Len(ThePath) - 1))
            new == Follow(Map(dest), Prefix(ThePath, Len(ThePath) - 1))
            i   == ThePath[Len(ThePath)].idx
        IN  (old.found /\ old.val.k = "arr") =>
                LET n == Len(old.val.a)
                IN  /\ new.found /\ new.val.k = "arr"
                    /\ \A x \in 1..n : x # i + 1 => new.val.a[x] = old.val.a[x]
                    /\ i >= n => (Len(new.val.a) = i + 1 /\ \A x \in (n + 1)..i : new.val.a[x] = Null)
                    /\ i < n => Len(new.val.a) = n

\* C7 witness: index 1 is written into an array of three elements
C7_Witness ==
    /\ OneClauseOk /\ ThePath[Len(ThePath)].t = "idx" /\ ThePath[Len(ThePath)].idx = 1
    /\ LET old == Follow(Map(pre), Prefix(ThePath, Len(ThePath) - 1))
           new == Follow(Map(dest), Prefix(ThePath, Len(ThePath) - 1))
       IN  /\ old.found /\ old.val.k = "arr" /\ Len(old.val.a) = 3
           /\ Len(new.val.a) = 3 /\ new.val.a[2] # old.val.a[2]
           /\ new.val.a[3] = old.val.a[3]

\* C7 second witness: an array of two elements grows to three
C7_WitnessGrow ==
    /\ OneClauseOk /\ ThePath[Len(ThePath)].t = "idx" /\ ThePath[Len(ThePath)].idx = 2
    /\ LET old == Follow(Map(pre), Prefix(ThePath, Len(ThePath) - 1))
           new == Follow(Map(dest), Prefix(ThePath, Len(ThePath) - 1))
       IN  /\ old.found /\ old.val.k = "arr" /\ Len(old.val.a) = 2
           /\ Len(new.val.a) = 3


\* C6: for every non-negative index i that the index conversion accepts,
\* MergeValue of k[i]=v into a destination without key k succeeds and binds
\* k to an array of exactly i+1 elements, Null before index i and the
\* coerced v at index i; the same holds level by level for k[i][j]=v.
\* The largest int is an index the conversion accepts, and writing it ends
\* in a run-time panic: the statement does not hold of the code.  (A
\* machine without the memory for the array is no case of the statement.)
C6_IndexedWriteIntoAbsentKey ==
    LET toks == run(input)
        shape == <<"tokenMapKey", "tokenArrayIndexStart", "tokenArrayIndex",
                   "tokenArrayIndexFinish", "tokenAssignment", "tokenValue", "tokenEnd">>
    IN  /\ (/\ calls = 1 /\ api = "MergeValue"
            /\ Len(toks) = 7 /\ \A j \in 1..7 : toks[j].TokenType = shape[j]
            /\ Atoi(toks[3]).err = ""
            /\ toks[1].value \notin DOMAIN pre)
           =>
            \/ status = "fatal" /\ IndexBeyondMemory(Atoi(toks[3]).index)
            \/ /\ status = "ok"
               /\ toks[1].value \in DOMAIN dest
               /\ IF IndexBeyondMemory(Atoi(toks[3]).index)
                  THEN dest[toks[1].value] =
                           BigArray(AddDigits(Atoi(toks[3]).index, <<"1">>),
                                    SparseStore(<<>>, Atoi(toks[3]).index,
                                                tryParse(toks[6].runes)))
                  ELSE /\ dest[toks[1].value].k = "arr"
                       /\ LET a == dest[toks[1].value].a
                          IN  /\ Len(a) >= 1
                              /\ ItoaRunes(Len(a) - 1) = Atoi(toks[3]).index
                              /\ \A x \in 1..(Len(a) - 1) : a[x] = Null
                              /\ a[Len(a)] = tryParse(toks[6].runes)
        /\ (/\ calls = 1 /\ api = "MergeValue" /\ Len(clauses) = 1
            /\ input = RenderClause(clauses[1])
            /\ Len(ThePath) = 3 /\ ThePath[2].t = "idx" /\ ThePath[3].t = "idx"
            /\ Str(ThePath[1].key) \notin DOMAIN pre)
           =>
            /\ status = "ok"
            /\ dest[Str(ThePath[1].key)] =
                   Array([x \in 1..(ThePath[2].idx + 1) |->
                            IF x <= ThePath[2].idx THEN Null
                            ELSE Array([y \in 1..(ThePath[3].idx + 1) |->
                                          IF y <= ThePath[3].idx THEN Null
                                          ELSE tryParse(TheText)])])

HasComma(text) == \E j \in 1..Len(text) : text[j] = ","

\* C8: MergeValue of an expression of two comma-separated clauses, a=v,a=w,
\* applies both clauses in order and leaves a bound to w.  lexValue reads on
\* to the end of the text and knows no comma, and parser.append calls
\* readMap once: a is bound to the string v,a=w, and the statement does
\* not hold of the code.
C8_MergeValueSplitsClauses ==
    (api = "MergeValue" /\ input = <<"a", "=", "v", ",", "a", "=", "w">>) =>
        (status = "ok" /\ dest["a"] = String(<<"w">>))

\* what holds of the code: MergeValue stores a right-hand text that has a
\* comma in it as one string, commas and what follows them included; of the
\* entry points it is Unmarshal that applies two clauses in order, so that
\* of two clauses on one path the second one's value stays
C8_OneClausePerMergeValue ==
    /\ (OneClauseOk /\ api = "MergeValue" /\ HasComma(TheText)) =>
           Follow(Map(dest), ThePath) = [found |-> TRUE, val |-> String(TheText)]
    /\ (api = "MergeValue" /\ input = <<"a", "=", "v", ",", "a", "=", "w">>) =>
           (status = "ok" /\ dest["a"] = String(<<"v", ",", "a", "=", "w">>))
    /\ (/\ api = "Unmarshal" /\ Len(clauses) = 2 /\ input = RenderClauses(clauses)
        /\ clauses[1].path = clauses[2].path /\ status # "running") =>
           /\ status = "ok"
           /\ Follow(Map(dest), clauses[2].path) =
                  [found |-> TRUE, val |-> tryParse(clauses[2].val)]

\* a case of it: MergeValue stored a text with a comma and an assignment in
\* it as one string under a nested path
C8_Witness ==
    /\ OneClauseOk /\ api = "MergeValue" /\ HasComma(TheText) /\ Len(ThePath) = 2
    /\ Follow(Map(dest), ThePath).val = String(<<"v", ",", "a", "=", "w">>)

\* a second case: Unmarshal applied two clauses on one path
C8_WitnessUnmarshal ==
    /\ api = "Unmarshal" /\ status = "ok" /\ Len(clauses) = 2
    /\ clauses[1].path = clauses[2].path /\ clauses[1].val # clauses[2].val
    /\ Follow(Map(dest), clauses[2].path).val = tryParse(clauses[2].val)

\* an Unmarshal call on well-formed clauses followed by a broken tail, once
\* it is over
BrokenCall ==
    /\ api = "Unmarshal" /\ clauses # <<>> /\ input # RenderClauses(clauses)
    /\ status # "running"

\* C9: when a clause after the first is malformed, Unmarshal returns an
\* error and the destination is what the clauses before it made of it:
\* nothing of them is rolled back and no clause after the failing one is
\* applied.
C9_EarlierClausesStay ==
    BrokenCall =>
        /\ status = "error"
        /\ err # ""
        /\ dest = Unmarshal(RenderClauses(clauses), pre).m
        /\ \A j \in 1..Len(clauses) :
               (\A i \in (j + 1)..Len(clauses) : clauses[i].path[1] # clauses[j].path[1]) =>
                   Follow(Map(dest), clauses[j].path) =
                       [found |-> TRUE, val |-> tryParse(clauses[j].val)]

\* C9 witness: two clauses took effect on different keys before the tail
\* failed, and the clause b=w after the failing one was not applied
C9_Witness ==
    /\ BrokenCall /\ status = "error" /\ Len(clauses) = 2
    /\ input = RenderClauses(clauses) \o
                 <<",", "b", "[", "x", "]", "=", "v", ",", "b", "=", "w">>
    /\ clauses[1].path[1] # clauses[2].path[1]
    /\ dest # pre
    /\ Follow(Map(dest), clauses[1].path).val = tryParse(clauses[1].val)
    /\ Follow(Map(dest), clauses[2].path).val = tryParse(clauses[2].val)
    /\ dest["b"] # String(<<"w">>)

\* C10: coercion gives a Bool for the exact texts true and false and for no
\* other text.  The code hands the text to strconv.ParseBool, which takes
\* 1, t, T, TRUE, True, 0, f, F, FALSE and False as well: the statement
\* does not hold of the code.
C10_BoolOnlyForTrueFalse ==
    (OneClauseOk /\ api = "MergeValue") =>
        LET got == Follow(Map(dest), ThePath).val
        IN  /\ got.k = "bool" <=> TheText \in {<<"t","r","u","e">>, <<"f","a","l","s","e">>}
            /\ TheText = <<"t","r","u","e">> => got = Bool(TRUE)
            /\ TheText = <<"f","a","l","s","e">> => got = Bool(FALSE)

\* a decimal literal: an optional sign followed by one or more digits
DecimalLiteral(t) ==
    LET d == IF t # <<>> /\ t[1] \in {"+", "-"} THEN Tail(t) ELSE t
    IN  d # <<>> /\ \A j \in 1..Len(d) : d[j] \in AsciiDigit

\* the digits of a decimal literal
LiteralDigits(t) == IF t[1] \in {"+", "-"} THEN Tail(t) ELSE t

\* the literal lies between -(1<<63) and 1<<63 - 1
LiteralInRange(t) ==
    MagnitudeLE(StripZeros(LiteralDigits(t)),
                IF t[1] = "-" THEN MinInt64Digits ELSE MaxInt64Digits)

\* the number a decimal literal denotes
LiteralValue(t) ==
    IF t[1] = "-" THEN 0 - NatOf(LiteralDigits(t)) ELSE NatOf(LiteralDigits(t))

\* C11: MergeValue coerces every bare value that is a decimal literal of a
\* 64-bit signed integer to the Int64 of that numeric value.
\* The code tries strconv.ParseBool before strconv.ParseInt, so the literals
\* 1 and 0 come out as the booleans true and false: the statement does not
\* hold of the code.
C11_DecimalLiteralIsInt64 ==
    (/\ OneClauseOk /\ api = "MergeValue"
     /\ DecimalLiteral(TheText) /\ LiteralInRange(TheText))
    =>
        Follow(Map(dest), ThePath) = [found |-> TRUE, val |-> Int64(LiteralValue(TheText))]

\* the letters of the word null in lower case
LowerNUL(c) == CASE c = "N" -> "n" [] c = "U" -> "u" [] c = "L" -> "l" [] OTHER -> c

\* the text is the word null in some mix of upper and lower case
SpellsNull(t) == [j \in 1..Len(t) |-> LowerNUL(t[j])] = <<"n", "u", "l", "l">>

\* C12: MergeValue stores Null exactly for the three spellings null, NULL
\* and Null; every other casing of the word is stored as the string itself.
C12_NullOnlyForThreeSpellings ==
    (OneClauseOk /\ api = "MergeValue") =>
        LET got == Follow(Map(dest), ThePath)
        IN  /\ got.found
            /\ got.val = Null <=> Str(TheText) \in {"null", "NULL", "Null"}
            /\ (SpellsNull(TheText) /\ Str(TheText) \notin {"null", "NULL", "Null"}) =>
                   got.val = String(TheText)

\* C12 witness: MergeValue of a=nULL stored the string nULL
C12_Witness ==
    /\ OneClauseOk /\ api = "MergeValue" /\ TheText = <<"n", "U", "L", "L">>
    /\ Follow(Map(dest), ThePath).val = String(<<"n", "U", "L", "L">>)

\* C12 second witness: MergeValue of a=Null stored Null
C12_WitnessNull ==
    /\ OneClauseOk /\ api = "MergeValue" /\ TheText = <<"N", "u", "l", "l">>
    /\ Follow(Map(dest), ThePath).val = Null

\* C13: for every expression MergeString accepts, the value at the written
\* path is the String of the literal right-hand text, also when the text
\* reads as a boolean, an integer, a float or null.
C13_MergeStringKeepsText ==
    (OneClauseOk /\ api = "MergeString") =>
        Follow(Map(dest), ThePath) = [found |-> TRUE, val |-> String(TheText)]

\* C13 witness: MergeString stored as a string a text that MergeValue turns
\* into a float
C13_Witness ==
    /\ OneClauseOk /\ api = "MergeString" /\ tryParse(TheText).k = "float"
    /\ Follow(Map(dest), ThePath).val = String(TheText)

\* C13 second witness: the same for a text that reads as null
C13_WitnessNull ==
    /\ OneClauseOk /\ api = "MergeString" /\ tryParse(TheText) = Null
    /\ Follow(Map(dest), ThePath).val = String(TheText)

\* C14: a call of drain, after no token or after some tokens were received,
\* returns; once it has returned, lex.run is over, the channel is closed
\* and every token has been taken, so that a later receive gets no token.
C14_DrainReturns ==
    /\ [](caller.pc \in {"drained", "after"} =>
            /\ lexer.pc = "done"
            /\ lexer.closed
            /\ lexer.sent = Len(lexer.toks)
            /\ caller.late = 0)
    /\ (caller.pc = "drain" ~> caller.pc = "drained")

\* C14 witness: drain was called after two of seven tokens were received,
\* took the other five and returned, and the range after it got nothing
C14_Witness ==
    /\ caller.pc = "after" /\ caller.got = 2 /\ caller.late = 0
    /\ Len(lexer.toks) = 7 /\ lexer.sent = 7 /\ lexer.closed

\* C14 second witness: drain was called before any token was received
C14_WitnessNoneConsumed ==
    /\ caller.pc = "drained" /\ caller.got = 0
    /\ lexer.sent = Len(lexer.toks) /\ lexer.sent > 1 /\ lexer.closed

\* the tokens the tokenizer of the last call sent
TokensOfCall == IF api = "Unmarshal" THEN runU(input) ELSE run(input)

\* an index token whose decimal literal lies beyond the largest int
OverflowsInt(tok) ==
    /\ tok.TokenType = "tokenArrayIndex"
    /\ \A j \in 1..Len(tok.runes) : tok.runes[j] \in AsciiDigit
    /\ ~MagnitudeLE(StripZeros(tok.runes), MaxInt64Digits)

\* the first index token of the expression overflows the int
FirstIndexOverflows(toks, j) ==
    /\ OverflowsInt(toks[j])
    /\ \A i \in 1..(j - 1) : toks[i].TokenType \notin {"tokenArrayIndex", "tokenNextKey"}

\* C15: an index literal that does not fit the int makes the call fail with
\* the conversion error of strconv.Atoi, which names the literal, whatever
\* comes after the literal (a lexical error included), and the destination
\* is left as it was.
C15_IndexOverflowIsConversionError ==
    calls = 1 =>
        With(TokensOfCall, LAMBDA toks :
            \A j \in 1..Len(toks) :
                FirstIndexOverflows(toks, j) =>
                    /\ status = "error"
                    /\ err = "strconv.Atoi: parsing \"" \o toks[j].value
                                 \o "\": value out of range"
                    /\ dest = pre)

\* C15 witness: the literal is followed by a lexical error (the closing
\* bracket is missing), the call failed with the conversion error, and the
\* destination, which held the key, is unchanged
C15_Witness ==
    /\ calls = 1 /\ api = "MergeValue" /\ status = "error"
    /\ With(TokensOfCall, LAMBDA toks :
            /\ Len(toks) = 4 /\ FirstIndexOverflows(toks, 3)
            /\ toks[4].TokenType = "tokenError")
    /\ err = "strconv.Atoi: parsing \"99999999999999999999\": value out of range"
    /\ "a" \in DOMAIN pre /\ dest = pre

\* the text does not begin with a map key: it is empty or begins with a
\* bracket, a dot or an assignment
NoLeadingKey(text) == text = <<>> \/ text[1] \in {"[", ".", "="}

\* the error of a tokenizer that finds no map key at the start of text;
\* the tokenizer of MergeValue and MergeString puts its position in front
MapKeyError(a, text) ==
    (IF a = "Unmarshal" THEN ""
     ELSE "in position " \o (IF text = <<>> THEN "0" ELSE "1") \o " got ")
    \o "unexpected " \o RuneString(IF text = <<>> THEN end ELSE text[1])
    \o ", expecting a map key"

\* what follows the well-formed clauses of a broken expression
TailOfBrokenCall == SubSeq(input, Len(RenderClauses(clauses)) + 2, Len(input))

\* C16: an expression that does not begin with a non-empty map key is
\* rejected with the error 'expecting a map key' and leaves the destination
\* as it was; so is a later clause of Unmarshal, after the clauses before
\* it were applied.  The root is a map: its entries are under string keys.
C16_RootIsAMap ==
    /\ (calls = 1 /\ NoLeadingKey(input)) =>
           /\ status = "error"
           /\ err = MapKeyError(api, input)
           /\ dest = pre
    /\ (BrokenCall /\ NoLeadingKey(TailOfBrokenCall)) =>
           /\ status = "error"
           /\ err = MapKeyError(api, TailOfBrokenCall)
    /\ \A key \in DOMAIN dest : key \in STRING

\* C16 witness: MergeValue of [0]=v on a destination that holds an array
\* failed and left the destination alone
C16_Witness ==
    /\ calls = 1 /\ api = "MergeValue" /\ input = <<"[", "0", "]", "=", "v">>
    /\ status = "error"
    /\ err = "in position 1 got unexpected character: U+005B '[', expecting a map key"
    /\ "a" \in DOMAIN pre /\ pre["a"].k = "arr" /\ dest = pre

\* the reserved characters of map-key mode
ReservedKeyChars == {".", "[", "]", "="}

RECURSIVE PlainPrefix(_)
\* the text up to its first reserved character
PlainPrefix(text) ==
    IF text = <<>> \/ text[1] \in ReservedKeyChars THEN <<>>
    ELSE <<text[1]>> \o PlainPrefix(Tail(text))

\* C17: in map-key mode an unescaped `.`, `[`, `]` or `=` ends the key and
\* is no part of the map-key token, and every other character, white space
\* included, is part of it: the first key of an expression without escapes
\* is the text up to the first reserved character.
\* The tokenizer stops at `.`, `[` and `=` only, so a `]` goes into the key:
\* the statement does not hold of the code.
C17_ReservedCharEndsKey ==
    (/\ calls = 1 /\ api \in {"MergeValue", "MergeString"}
     /\ PlainPrefix(input) # <<>>
     /\ \A j \in 1..Len(PlainPrefix(input)) : PlainPrefix(input)[j] # "\\")
    =>
        With(run(input), LAMBDA toks :
            /\ toks[1].TokenType = "tokenMapKey"
            /\ toks[1].runes = PlainPrefix(input)
            /\ status = "ok" => Str(PlainPrefix(input)) \in DOMAIN dest)

\* C18: in a map key a backslash before `.`, `[`, `]`, `=` or a backslash
\* puts that character into the key and is dropped itself; a backslash
\* before any other character or at the end of the input is the error
\* `unknown escape sequence`, and the call fails.
\* `]` is none of the characters the tokenizer stops at, so the code takes
\* `\]` for an unknown escape sequence: the statement does not hold of the
\* code.
C18_EscapesInKeys ==
    (calls = 1 /\ api \in {"MergeValue", "MergeString"} /\ input \in EscapeInputs) =>
        IF Len(input) = 6 /\ input[3] \in ReservedKeyChars \cup {"\\"}
        THEN /\ status = "ok"
             /\ DOMAIN dest = DOMAIN pre \cup {Str(<<"a", input[3], "b">>)}
             /\ dest[Str(<<"a", input[3], "b">>)] = String(<<"v">>)
        ELSE /\ status = "error"
             /\ With(IF Len(input) = 2 THEN end ELSE input[3], LAMBDA ch :
                    err = "in position " \o (IF Len(input) = 2 THEN "2" ELSE "3") \o " got "
                          \o SprintfErrError("unknown escape sequence: " \o RuneString(ch), ch))
             /\ dest = pre

RECURSIVE SplitAtCommas(_)
\* the pieces of a text between its commas
SplitAtCommas(t) ==
    IF \A j \in 1..Len(t) : t[j] # "," THEN <<t>>
    ELSE LET j == CHOOSE i \in 1..Len(t) : t[i] = "," /\ \A h \in 1..(i - 1) : t[h] # ","
         IN  <<SubSeq(t, 1, j - 1)>> \o SplitAtCommas(SubSeq(t, j + 1, Len(t)))

\* the text between the brackets of a={...}
InsideBrackets == SubSeq(input, 4, Len(input) - 1)

\* the last call was Unmarshal of a={...} with plain elements between the
\* brackets, at least one element or comma
ListCall ==
    /\ calls = 1 /\ api = "Unmarshal"
    /\ Len(input) >= 5
    /\ SubSeq(input, 1, 3) = <<"a", "=", "{">> /\ input[Len(input)] = "}"
    /\ \A j \in 1..Len(InsideBrackets) : InsideBrackets[j] \notin {"{", "}", "'", "\\", "@"}

\* C19: Unmarshal records every empty element position of a bracket list
\* as one empty string, so that a list with n commas gives an array of n+1
\* elements: the coerced text where there is one, "" where there is none.
\* readValuesArray appends nil for an empty position before a comma and
\* nothing for the one before the closing bracket: the statement does not
\* hold of the code.
C19_EmptyElementIsEmptyString ==
    ListCall =>
        /\ status = "ok"
        /\ "a" \in DOMAIN dest
        /\ With(SplitAtCommas(InsideBrackets), LAMBDA es :
               dest["a"] = Array([j \in 1..Len(es) |->
                                    IF es[j] = <<>> THEN String(<<>>) ELSE tryParse(es[j])]))

\* C20: in Unmarshal an assignment followed at once by the end of the input
\* or by a comma succeeds and stores the empty string at the path, and
\* after the comma the next clause is applied.
\* readRightValue has no case for the token of the comma and returns the
\* error `unexpected ","`: the statement does not hold of the code.
C20_MissingValueIsEmptyString ==
    (calls = 1 /\ api = "Unmarshal") =>
        \A p \in {q \in Paths : Len(q) <= 2} :
            /\ input = RenderPath(p) \o <<"=">> =>
                   /\ status = "ok"
                   /\ Follow(Map(dest), p) = [found |-> TRUE, val |-> String(<<>>)]
            /\ input = RenderPath(p) \o <<"=", ",", "b", "=", "w">> =>
                   /\ status = "ok"
                   /\ p[1].key # <<"b">> =>
                          Follow(Map(dest), p) = [found |-> TRUE, val |-> String(<<>>)]
                   /\ "b" \in DOMAIN dest /\ dest["b"] = String(<<"w">>)

\* the last call was Unmarshal of a=@R
VerbatimCall ==
    /\ api = "Unmarshal" /\ Len(input) >= 3 /\ SubSeq(input, 1, 3) = <<"a", "=", "@">>
    /\ status # "running"

\* the remainder R of the input after the @
VerbatimText == SubSeq(input, 4, Len(input))

\* C21: Unmarshal of a=@R succeeds and stores under a the String R exactly,
\* whatever R holds of commas, braces, quotes, backslashes and texts that
\* coerce, and writes nothing else: no further clause is recognised.
C21_VerbatimValueIsRemainder ==
    VerbatimCall =>
        /\ status = "ok"
        /\ DOMAIN dest = DOMAIN pre \cup {"a"}
        /\ dest["a"] = String(VerbatimText)
        /\ \A x \in DOMAIN pre \ {"a"} : dest[x] = pre[x]

RECURSIVE UpToEnd(_)
\* the runes of t before its first U+0000, the rune read returns at the end
UpToEnd(t) == IF t = <<>> \/ t[1] = end THEN <<>> ELSE <<t[1]>> \o UpToEnd(Tail(t))

\* what Unmarshal of a=@R does: it stores R up to its first U+0000
C21_VerbatimUpToEnd ==
    VerbatimCall =>
        /\ status = "ok"
        /\ DOMAIN dest = DOMAIN pre \cup {"a"}
        /\ dest["a"] = String(UpToEnd(VerbatimText))
        /\ \A x \in DOMAIN pre \ {"a"} : dest[x] = pre[x]

\* the last call was Unmarshal of a='C' for one of the quoted contents
QuotedCall == api = "Unmarshal" /\ input \in QuotedInputs /\ status # "running"

\* the text C between the opening and the closing quote
QuotedContent == SubSeq(input, 4, Len(input) - 1)

RECURSIVE UnescapeQuotes(_)
\* the content with every \' read as one literal '
UnescapeQuotes(c) ==
    IF c = <<>> THEN <<>>
    ELSE IF Len(c) >= 2 /\ c[1] = "\\" /\ c[2] = "'"
    THEN <<"'">> \o UnescapeQuotes(SubSeq(c, 3, Len(c)))
    ELSE <<c[1]>> \o UnescapeQuotes(Tail(c))

\* C22: Unmarshal of a='C' succeeds and stores the String whose content is
\* exactly C with each \' read as one ', without coercion, also when an
\* escaped quote is the first or the last character of C.
C22_QuotedValueIsContent ==
    QuotedCall =>
        /\ status = "ok"
        /\ dest["a"] = String(UnescapeQuotes(QuotedContent))

\* what Unmarshal of a='C' does: the quotes at both ends of the content,
\* escaped ones included, are trimmed away with the delimiters
C22_QuotedValueTrimmed ==
    QuotedCall =>
        /\ status = "ok"
        /\ dest["a"] = String(TrimQuotes(UnescapeQuotes(QuotedContent)))

\* the last call was given a complete path and nothing after it
PathOnlyCall == calls > 0 /\ input \in PathOnlyInputs

\* the error of lexLeftValue at the end of the input: the tokenizer of
\* MergeValue and MergeString puts the position before it
UnexpectedEnd == "unexpected end, expecting '.', '=' or '['"
UnexpectedEndAt(n) == "in position " \o Itoa(n) \o " got " \o UnexpectedEnd

\* C23: an expression that ends right after a complete path, after a map key
\* or a closing ], without an = is rejected with the unexpected end error
\* that expects '.', '=' or '[', and the destination is as it was.
C23_PathWithoutAssignment ==
    PathOnlyCall =>
        /\ status = "error"
        /\ err = (IF api = "Unmarshal" THEN UnexpectedEnd ELSE UnexpectedEndAt(ByteLen(input)))
        /\ dest = pre

\* C23 witness: MergeValue of a path that ends in ] and leads through
\* containers the destination holds
C23_Witness ==
    /\ PathOnlyCall /\ api = "MergeValue" /\ status = "error"
    /\ input = <<"a", "[", "1", "]", "[", "0", "]">>
    /\ pre # <<>> /\ "a" \in DOMAIN pre /\ pre["a"].k = "arr"
    /\ dest = pre

\* C23 witness: Unmarshal of a path that ends in a map key
C23_WitnessKey ==
    /\ PathOnlyCall /\ api = "Unmarshal" /\ status = "error"
    /\ input = <<"a", ".", "b">> /\ err = UnexpectedEnd /\ dest = pre

\* C24: when MergeValue or MergeString has returned, with nil or with an
\* error, lex.run of its tokenizer is over or has no token left to send: it
\* is not blocked in a send that nobody will receive.
C24_TokenizerDisposed == caller.pc = "returned" => ~Sending

\* what holds of the calls that return an error: drain has received every
\* token and seen the channel closed
C24_DrainedOnError ==
    (caller.pc = "returned" /\ status = "error") => (lexer.pc = "done" /\ lexer.closed)

\* what holds of the calls that return nil: lex.run is blocked sending
\* tokenEnd whenever the expression has a right-hand text
C24_BlockedOnSuccess ==
    (caller.pc = "returned" /\ status = "ok") =>
        (Sending <=> lexer.toks[Len(lexer.toks) - 1].TokenType = "tokenValue")

\* C25: when MergeValue or MergeString returns an error, the destination is
\* exactly as it was before the call, wherever in the expression the error
\* came up: the cursors of the descent hold containers without storing them.
C25_ErrorLeavesDestination ==
    (api \in {"MergeValue", "MergeString"} /\ status = "error") => dest = pre

\* C25 witness: MergeString fails at the end of a[0].b after the descent
\* through an Array and a Map the destination holds
C25_Witness ==
    /\ api = "MergeString" /\ status = "error"
    /\ input = <<"a", "[", "0", "]", ".", "b">>
    /\ Follow(Map(pre), <<KeySeg(<<"a">>), IdxSeg(0)>>).found
    /\ Follow(Map(pre), <<KeySeg(<<"a">>), IdxSeg(0)>>).val.k = "map"
    /\ dest = pre

\* C25 witness: MergeValue fails at the end of a.b[1], a path that would
\* have replaced the String under a by a Map holding an Array
C25_WitnessFresh ==
    /\ api = "MergeValue" /\ status = "error"
    /\ input = <<"a", ".", "b", "[", "1", "]">>
    /\ "a" \in DOMAIN pre /\ pre["a"].k = "str"
    /\ dest = pre

\* the last call wrote through the largest index a native int holds
LargestIndexCall ==
    /\ calls > 0
    /\ input = <<"a", "[">> \o MaxInt64Digits \o <<"]", "=", "v">>

\* C26: a merge call on a map returns, with success or with an error, and
\* never ends in a run-time panic, whatever the input: also for the largest
\* index a native int holds, index+1 does not wrap around and the element
\* access is within the array.
C26_MergeNeverCrashes == calls > 0 => status # "panic"

\* what the call with the largest index does, whatever the destination
\* holds: index+1 wraps around, nothing is appended, the access panics
C26_LargestIndexPanics == LargestIndexCall => (status = "panic" /\ dest = pre)

\* a terminal token: End or Error
Terminal(tok) == tok.TokenType \in {"tokenEnd", "tokenError"}

\* the tokens received from the channel so far, by whichever loop
Received == SubSeq(lexer.toks, 1, lexer.sent)

\* the tokens of one tokenizer: one terminal token, the last one, and a
\* channel that is closed once that token has been received, not before
OneTerminalTokenLast ==
    /\ Len(lexer.toks) >= 1
    /\ Terminal(lexer.toks[Len(lexer.toks)])
    /\ \A i \in 1..(Len(lexer.toks) - 1) : ~Terminal(lexer.toks[i])
    /\ \A i \in 1..(Len(Received) - 1) : ~Terminal(Received[i])
    /\ lexer.closed <=> lexer.pc = "done"
    /\ lexer.closed => (lexer.sent = Len(lexer.toks) /\ Terminal(Received[lexer.sent]))

\* C27: the tokenizer sends finitely many tokens; exactly one of them is
\* terminal (End or Error) and it is the last one, so that nothing follows
\* an Error; the channel is closed when the terminal token has been
\* received and not before, and with a consumer that keeps receiving (the
\* loop of drain) the terminal token is received and the channel closed.
C27_OneTerminalTokenLast ==
    /\ []OneTerminalTokenLast
    /\ (caller.pc = "drain") ~> (lexer.closed /\ Terminal(Received[lexer.sent]))

\* C27 witness: every token of an expression that fails after its index has
\* been received with nextToken, the Error token last, and the channel is closed
C27_Witness ==
    /\ lexer.closed /\ lexer.pc = "done"
    /\ caller.pc = "read" /\ caller.got = Len(lexer.toks)
    /\ Len(lexer.toks) >= 4
    /\ lexer.toks[Len(lexer.toks)].TokenType = "tokenError"

\* C27 witness: an accepted expression, End received last by drain
C27_WitnessEnd ==
    /\ lexer.closed /\ caller.pc = "drained" /\ caller.got = 2
    /\ Len(lexer.toks) = 4
    /\ lexer.toks[4].TokenType = "tokenEnd" /\ lexer.toks[3].TokenType = "tokenValue"

\* the last call was Unmarshal of an expression without a clause separator,
\* a single clause, and it returned an error
SingleClauseError == api = "Unmarshal" /\ status = "error" /\ ~HasComma(input)

\* C28: when Unmarshal returns an error for an expression of a single
\* clause, the destination is exactly as it was before the call: the value
\* of a clause is committed only after what follows it has been accepted.
C28_SingleClauseErrorLeavesDestination == SingleClauseError => dest = pre

\* what Unmarshal does instead: an error of the token after the value, which
\* parse asks for once readMap is back, finds the clause committed
C28_ErrorBeforeCommit ==
    (SingleClauseError /\ dest # pre) =>
        /\ err \in { "unexpected character: U+007B '{', expecting ',' or the end",
                     "unexpected character: U+0078 'x', expecting ',' or the end" }
        /\ \E x \in DOMAIN dest : x \notin DOMAIN pre \/ dest[x] # pre[x]

\* entry point a applied to map m and expression str
Merge(a, m, str) == IF a = "MergeString" THEN MergeString(m, str) ELSE MergeValue(m, str)

\* the last call was a successful MergeValue of k[i]=v1: a path that ends in
\* an index
IndexedMerge ==
    /\ OneClauseOk /\ api = "MergeValue"
    /\ ThePath[Len(ThePath)].t = "idx"

\* the right-hand text of the write to the other index: one that coerces
OtherTexts == {<<"1", "0">>}

\* the clause k[j]=v2: the path of the last call with j for its last index
OtherClause(j, v2) == Clause([ThePath EXCEPT ![Len(ThePath)] = IdxSeg(j)], v2)

\* ab is k[i]=v1 then k[j]=v2 and ba is k[j]=v2 then k[i]=v1, both from pre:
\* both succeed with the same tree, whose array holds v1 at i and v2 at j
SameEitherWay(ab, ba, j, v2) ==
    /\ ab.err = "" /\ ~ab.panic /\ ba.err = "" /\ ~ba.panic
    /\ ab.m = ba.m
    /\ Follow(Map(ab.m), ThePath) = [found |-> TRUE, val |-> Expected(api, TheText)]
    /\ Follow(Map(ab.m), OtherClause(j, v2).path) = [found |-> TRUE, val |-> Expected(api, v2)]

\* C29: writes to two different indices of the same array commute: from the
\* same destination, k[i]=v1 then k[j]=v2 and k[j]=v2 then k[i]=v1 succeed
\* with the same tree, which holds v1 at i and v2 at j (and so an array of
\* at least max(i,j)+1 elements).
C29_IndexWritesCommute ==
    IndexedMerge =>
        \A j \in (0..MaxIndex) \ {ThePath[Len(ThePath)].idx} : \A v2 \in OtherTexts :
            SameEitherWay(
                Merge(api, dest, RenderClause(OtherClause(j, v2))),
                Merge(api, Merge(api, pre, RenderClause(OtherClause(j, v2))).m, input),
                j, v2)

\* C29 witness: a[2]=v1 written into a destination whose a is an Array of
\* three elements; the write to index 0 or 1 in either order keeps the rest
C29_Witness ==
    /\ IndexedMerge /\ ThePath = <<KeySeg(<<"a">>), IdxSeg(2)>>
    /\ "a" \in DOMAIN pre /\ pre["a"].k = "arr" /\ Len(pre["a"].a) = 3
    /\ Merge(api, dest, <<"a", "[", "0", "]", "=", "1", "0">>).m
         = Merge(api, Merge(api, pre, <<"a", "[", "0", "]", "=", "1", "0">>).m, input).m
    /\ Len(dest["a"].a) = 3

\* C29 witness: a[0]=v1 written where a was absent: the array grows to
\* three elements when a[2] is written after it, and the other order gives
\* the same array
C29_WitnessGrow ==
    /\ IndexedMerge /\ ThePath = <<KeySeg(<<"a">>), IdxSeg(0)>> /\ "a" \notin DOMAIN pre
    /\ Len(dest["a"].a) = 1
    /\ Len(Merge(api, dest, <<"a", "[", "2", "]", "=", "1", "0">>).m["a"].a) = 3
    /\ Merge(api, dest, <<"a", "[", "2", "]", "=", "1", "0">>).m
         = Merge(api, Merge(api, pre, <<"a", "[", "2", "]", "=", "1", "0">>).m, input).m

\* the last call was a successful Unmarshal of c1,...,cn: of rendered
\* clauses, or of two clauses with U+0000 in the first
SequencedCall ==
    /\ api = "Unmarshal" /\ status = "ok"
    /\ \/ Len(clauses) >= 1 /\ input = RenderClauses(clauses)
       \/ input \in CutInputs

\* the clauses c1, ..., cn of the call, each as an expression
TextsOfCall ==
    IF input \in CutInputs THEN SplitAtCommas(input)
    ELSE [i \in 1..Len(clauses) |-> RenderClause(clauses[i])]

RECURSIVE OneByOne(_, _)
\* successive calls of Unmarshal on m, one per expression of texts: the
\* outcome of the first call that fails, or of the last call
OneByOne(texts, m) ==
    IF texts = <<>> THEN [err |-> "", panic |-> FALSE, m |-> m]
    ELSE With(Unmarshal(texts[1], m), LAMBDA r :
            IF r.err # "" \/ r.panic THEN [err |-> r.err, panic |-> r.panic, m |-> r.m]
            ELSE OneByOne(Tail(texts), r.m))

\* C30: a successful Unmarshal of c1,c2,...,cn leaves the destination as n
\* successive calls of Unmarshal with c1, c2, ..., cn do, each on the map
\* the one before left: the clauses are applied from left to right against
\* the same root.
C30_ClausesAsSuccessiveCalls ==
    SequencedCall => OneByOne(TextsOfCall, pre) = [err |-> "", panic |-> FALSE, m |-> dest]

\* what holds: the same for the expressions without U+0000, and a call
\* whose first clause holds U+0000 ends there, with the rest not applied
C30_ClausesUpToEnd ==
    SequencedCall =>
        IF input \in CutInputs
        THEN Unmarshal(TextsOfCall[1], pre).m = dest
        ELSE OneByOne(TextsOfCall, pre) = [err |-> "", panic |-> FALSE, m |-> dest]

\* the last two calls were the same successful merge call, one after the other
SameCallTwice ==
    /\ calls >= 2 /\ OneClauseOk
    /\ prev = [api |-> api, clauses |-> clauses, status |-> "ok"]

\* C31: merging is idempotent: the second of two identical accepted merge
\* calls in a row leaves the destination as the first call left it.
C31_MergeIsIdempotent == SameCallTwice => dest = pre

\* C31 witness: a[1]=v written twice; the Array of two elements the first
\* call made is what the second call leaves
C31_Witness ==
    /\ SameCallTwice /\ api = "MergeValue"
    /\ ThePath = <<KeySeg(<<"a">>), IdxSeg(1)>>
    /\ dest = pre
    /\ dest["a"] = Array(<<Null, tryParse(TheText)>>)

\* C31 witness: a three-segment path through an Array and a Map, written twice
C31_WitnessDeep ==
    /\ SameCallTwice /\ Len(ThePath) = 3 /\ ThePath[2].t = "idx" /\ ThePath[3].t = "key"
    /\ dest = pre

\* the same on every destination of the single calls: the call that has
\* just succeeded, applied once more to what it left, changes nothing
C31_IdempotentOnEveryDestination ==
    (OneClauseOk /\ api \in {"MergeValue", "MergeString"}) =>
        With(Merge(api, dest, input), LAMBDA r : r.err = "" /\ ~r.panic /\ r.m = dest)

RECURSIVE ReplaceAt(_, _, _)
\* the tree v with new in the slot path p leads to
ReplaceAt(v, p, new) ==
    IF p = <<>> THEN new
    ELSE IF p[1].t = "key"
    THEN Map([v.m EXCEPT ![Str(p[1].key)] = ReplaceAt(@, Tail(p), new)])
    ELSE Array([v.a EXCEPT ![p[1].idx + 1] = ReplaceAt(@, Tail(p), new)])

\* s is what MergeString comes to on the destination and the expression of
\* the MergeValue call just made: the same error or panic, and on success
\* the same tree but for the terminal slot, with the raw text there where
\* MergeValue has put the coerced value
SameButTerminal(s) ==
    IF status = "fatal" THEN s.oom /\ dest = pre
    ELSE /\ s.panic = (status = "panic")
         /\ s.err = err
         /\ status # "ok" => s.m = dest
         /\ OneClauseOk =>
               /\ Follow(Map(s.m), ThePath) = [found |-> TRUE, val |-> String(TheText)]
               /\ Follow(Map(dest), ThePath) = [found |-> TRUE, val |-> tryParse(TheText)]
               /\ Map(dest) = ReplaceAt(Map(s.m), ThePath, tryParse(TheText))

\* C32: on the same destination and the same expression MergeValue and
\* MergeString succeed or fail alike, with the same error, and on success
\* leave the same tree except at the terminal slot of the written path,
\* where MergeValue holds the coerced value and MergeString the raw text.
C32_MergeStringFollowsMergeValue ==
    (calls > 0 /\ api = "MergeValue") => SameButTerminal(MergeString(pre, input))

\* C32 witness: a three-segment path and a text that coerces to an integer
C32_Witness ==
    /\ OneClauseOk /\ api = "MergeValue" /\ Len(ThePath) = 3 /\ TheText = <<"1", "0">>
    /\ Follow(Map(dest), ThePath).val = Int64(10)
    /\ Follow(Map(MergeString(pre, input).m), ThePath).val = String(<<"1", "0">>)
    /\ pre # <<>>

\* C32 witness: both calls fail with the error of the index conversion
C32_WitnessError ==
    /\ api = "MergeValue" /\ status = "error"
    /\ err = "strconv.Atoi: parsing \"99999999999999999999\": value out of range"
    /\ MergeString(pre, input).err = err

\* the last call was MergeValue or MergeString and it returned an error
MergeError == api \in {"MergeValue", "MergeString"} /\ status = "error"

\* e is the error of the Error token that ends toks: a lexical error
LexicalError(e, toks) ==
    toks[Len(toks)].TokenType = "tokenError" /\ e = toks[Len(toks)].value

\* e is the error strconv.Atoi gives for an index token of toks
ConversionError(e, toks) ==
    \E i \in 1..Len(toks) :
        toks[i].TokenType = "tokenArrayIndex" /\ Atoi(toks[i]).err = e

\* e is the generic error tokenToError makes of a token of toks that is not
\* an Error token: unexpected "<token>"
GrammarError(e, toks) ==
    \E i \in 1..Len(toks) : toks[i].TokenType # "tokenError" /\ e = tokenToError(toks[i])

\* C33: with the tokenizer of newLex, MergeValue and MergeString never fail
\* with the generic error unexpected "<token>": every error they return is
\* the error of the tokenizer's Error token or the error of the index
\* conversion.
C33_NoGrammarError ==
    MergeError =>
        With(run(input), LAMBDA toks :
            /\ ~GrammarError(err, toks)
            /\ LexicalError(err, toks) \/ ConversionError(err, toks))

\* C33 witness: MergeValue of a path without an assignment fails with the
\* error of lexLeftValue
C33_Witness ==
    /\ MergeError /\ api = "MergeValue" /\ input = <<"a", "[", "0", "]">>
    /\ LexicalError(err, run(input))
    /\ err = UnexpectedEndAt(4)

\* C33 witness: MergeString fails with the error of the index conversion,
\* and the tokenizer had no Error token to send
C33_WitnessConversion ==
    /\ MergeError /\ api = "MergeString"
    /\ ConversionError(err, run(input)) /\ ~LexicalError(err, run(input))

\* the last n runes of the sequence s
Suffix(s, n) == SubSeq(s, Len(s) - n + 1, Len(s))

\* the token tok carries the input from its position to the last byte
CarriesTheRest(tok) ==
    /\ tok.position + ByteLen(tok.runes) = ByteLen(input)
    /\ Len(tok.runes) <= Len(input)
    /\ tok.runes = Suffix(input, Len(tok.runes))

\* the End token at place i of toks has no text and stands at the length of
\* the input, and a value token before it carries the rest of the input
EndAtEndOfInput(toks, i) ==
    /\ toks[i].value = "" /\ toks[i].runes = <<>>
    /\ toks[i].position = ByteLen(input)
    /\ (i > 1 /\ toks[i - 1].TokenType = "tokenValue") => CarriesTheRest(toks[i - 1])

\* C34: the tokenizer reports the end of the input only when every byte of
\* the input has been consumed, the character U+0000 included: an End token
\* has empty text and a position equal to the length of the input, and the
\* value token before it carries the whole text after the assignment.
C34_EndAtEndOfInput ==
    \A i \in 1..lexer.sent :
        Received[i].TokenType = "tokenEnd" => EndAtEndOfInput(Received, i)

\* the same for the inputs without the rune U+0000
C34_EndUpToSentinel ==
    (\A j \in 1..Len(input) : input[j] # end) => C34_EndAtEndOfInput

\* the errors strconv.Atoi gives for a literal beyond the native int
OutOfRange(tok) == "strconv.Atoi: parsing \"" \o tok.value \o "\": value out of range"

\* the index token tok is made of the digits 0-9 and its conversion gives
\* an int or the error of a literal out of range
DecimalIndex(tok) ==
    /\ \A j \in 1..Len(tok.runes) : tok.runes[j] \in AsciiDigit
    /\ Atoi(tok).err \in {"", OutOfRange(tok)}

\* C35: every array-index token the tokenizer emits consists only of
\* decimal digits that strconv.Atoi understands, so converting an index
\* token fails only because the literal is out of range for the native int.
C35_IndexTokensAreDecimal ==
    \A i \in 1..lexer.sent :
        Received[i].TokenType = "tokenArrayIndex" => DecimalIndex(Received[i])

\* the same for the inputs whose runes are all below U+0080
C35_AsciiIndexTokensAreDecimal ==
    (\A j \in 1..Len(input) : RuneLen(input[j]) = 1) => C35_IndexTokensAreDecimal

\* MergeValue and MergeString fail on an index of number runes with the
\* error of a wrong syntax, which is not the error of a literal out of range
C35_InvalidSyntax ==
    (input = <<"a", "[", "U+00B2", "]", "=", "v">> /\ api \in {"MergeValue", "MergeString"}
        /\ calls > 0) =>
        /\ status = "error"
        /\ err = "strconv.Atoi: parsing \"U+00B2\": invalid syntax"
        /\ dest = pre

RECURSIVE FromOffset(_, _)
\* the runes of s from the byte offset n on; the offset has to be the first
\* byte of a rune or the length of s
FromOffset(s, n) ==
    IF n = 0 THEN [ok |-> TRUE, rest |-> s]
    ELSE IF s = <<>> \/ RuneLen(s[1]) > n THEN [ok |-> FALSE, rest |-> <<>>]
    ELSE FromOffset(Tail(s), n - RuneLen(s[1]))

RECURSIVE UpToOffset(_, _)
\* the runes of s before the byte offset n
UpToOffset(s, n) ==
    IF n <= 0 \/ s = <<>> THEN <<>>
    ELSE <<s[1]>> \o UpToOffset(Tail(s), n - RuneLen(s[1]))

\* the source text of the input between the byte offsets from and to
SourceText(from, to) ==
    With(FromOffset(input, from), LAMBDA f :
        IF f.ok /\ from <= to /\ FromOffset(f.rest, to - from).ok
        THEN [ok |-> TRUE, text |-> UpToOffset(f.rest, to - from)]
        ELSE [ok |-> FALSE, text |-> <<>>])

RECURSIVE DropEscapes(_)
\* a source text without the backslashes that escape the rune after them
DropEscapes(s) ==
    IF s = <<>> THEN <<>>
    ELSE IF s[1] = "\\" /\ Len(s) >= 2 THEN <<s[2]>> \o DropEscapes(SubSeq(s, 3, Len(s)))
    ELSE <<s[1]>> \o DropEscapes(Tail(s))

\* the text of the token tok is the source text between from and to, the
\* escaping backslashes of a key dropped
TextOfSource(tok, from, to) ==
    With(SourceText(from, to), LAMBDA src :
        /\ src.ok
        /\ tok.runes = IF tok.TokenType = "tokenMapKey" THEN DropEscapes(src.text)
                       ELSE src.text)

\* the tokens toks lie one after the other in the input from the offset 0
\* on: each begins where the source text of the one before it ended
Contiguous(toks) ==
    /\ toks # <<>> => toks[1].position = 0
    /\ \A i \in 1..(Len(toks) - 1) :
        /\ toks[i].position <= toks[i + 1].position
        /\ TextOfSource(toks[i], toks[i].position, toks[i + 1].position)
    /\ \A i \in 1..Len(toks) :
        toks[i].TokenType = "tokenEnd" =>
            TextOfSource(toks[i], toks[i].position, toks[i].position + ByteLen(toks[i].runes))

\* C36: token positions are byte offsets into the input: the first token
\* starts at offset 0, the position of every token that is not an Error
\* token is the offset where its source text begins, and each following
\* token begins exactly where the source text of the previous one ended, a
\* dropped escape backslash counted with its key; positions never decrease
\* and no byte of the input is tokenized twice.
C36_PositionsAreByteOffsets == Contiguous(Received)

\* C36 witness: the tokens of an expression with an escape in a key of
\* runes of two and three bytes: the index starts at the offset 7
C36_Witness ==
    /\ input = <<"U+00E9", "\\", ".", "U+20AC", "[", "1", "]", "=", "U+00E9", "v">>
    /\ lexer.sent = 7
    /\ Received[1].runes = <<"U+00E9", ".", "U+20AC">> /\ Received[1].position = 0
    /\ Received[2].position = 7 /\ Received[3].position = 8
    /\ Received[6].runes = <<"U+00E9", "v">> /\ Received[6].position = 11
    /\ Received[7].TokenType = "tokenEnd" /\ Received[7].position = 14

\* C36 witness: an Error token stands where the text before it ended
C36_WitnessError ==
    /\ input = <<"a", "U+00E9", "[", "U+00E9", "]", "=", "v">>
    /\ lexer.sent = 3
    /\ Received[3].TokenType = "tokenError" /\ Received[3].position = 4

====
